---- MODULE Spec2Model ----
(***************************************************************************)
(* Job lifecycle, resume and event replay of the lead-scraper API:         *)
(* JobManager (src/api/services/job_manager.py), the scrape / jobs /       *)
(* stream routes (src/api/routes) and the durable store they mirror to.    *)
(***************************************************************************)
EXTENDS Integers, Sequences, FiniteSets, TLC

(* ------------------------------ bounds -------------------------------- *)
\* size of the pool of job ids (id 1 is the job a previous process left in the store)
MaxJobs == 2
\* the clock runs from 0 to MaxTime (one unit = one period of the sweep loop)
MaxTime == 2
\* number of run_scrape_job background tasks ever queued
MaxTasks == 2
\* settings.max_concurrent_jobs, settings.max_jobs_per_user (configurable)
max_concurrent_jobs == 2
max_jobs_per_user == 1
\* settings.job_timeout_minutes and settings.job_ttl_hours, in clock units: a running job
\* is overdue once more than job_timeout_minutes units have passed since it started
job_timeout_minutes == 0
job_ttl_hours == 1
\* number of events a job emits in the replay specification
MaxAppend == 103
\* number of callbacks a pipeline run makes in the run specification
MaxCalls == 4
\* number of lead callbacks a pipeline run makes in the specification of the requests
MaxAccessCalls == 1
MaxRaw == 2
\* callbacks registered for a job and events emitted to them in the notification specification
MaxCallbacks == 2
MaxNotified == 3

(* ----------------------------- constants ------------------------------ *)
\* Job.max_buffer_size
max_buffer_size == 100

JobIds == 1..MaxJobs
Users == {"u1", "u2"}
PlaceIds == {"p1", "p2", "p3"}
NoTime == -1
NoStep == "none"
NoError == "none"
NoUser == "none"
Active == {"pending", "running"}
Terminal == {"completed", "failed", "cancelled"}
Resumable == {"failed", "cancelled"}
StepNames == {"Scraping Google Maps", "Enriching leads", "Scoring leads", "Generating outreach"}
\* the values of the counter a progress callback is called with, in the run specification
Currents == {1, 2}

\* the TypeError text Python produces for Pipeline(..., lead_update_callback=...)
CtorErrorMsg == "Pipeline.__init__() got an unexpected keyword argument 'lead_update_callback'"
CancelledMsg == "Job cancelled"
TimeoutMsg == "Job timed out after job_timeout_minutes minutes. Please try again."
RestartMsg == "Job interrupted by server restart. Please start a new job."

\* exception texts of a pipeline run that was not cancelled: one without the word, one
\* with it (a request the remote end dropped)
ScrapeErrorMsg == "Page.goto: Timeout 30000ms exceeded"
RequestCancelledMsg == "Request cancelled by the remote host"
\* "cancelled" in error_msg.lower(), over the messages of the model
ContainsCancelled(msg) == msg \in {CancelledMsg, RequestCancelledMsg}
\* "outreach" in resume_step.lower(), over the step names of the model
ContainsOutreach(step) == step \in {"Generating outreach", "Resuming outreach"}

(* ------------------------------- leads -------------------------------- *)
\* phone numbers as strings of characters; NoPhone is the empty string
Phone1 == <<"0", "8", "1", "-", "2", "3", "4", "5", "6", "7">>
NoPhone == <<>>
DigitChars == {"0", "1", "2", "3", "4", "5", "6", "7", "8", "9"}
IsDigit(c) == c \in DigitChars
\* re.sub(r"[^\d]", "", phone)
NormalizedPhone(phone) == SelectSeq(phone, IsDigit)
\* a FinalLead, as far as the job store looks at it
MkLead(pid, phone, score) == [place_id |-> pid, phone |-> phone, score |-> score]
NoLead == MkLead("none", NoPhone, 0)
\* what a pipeline can hand to the lead callbacks: p1 before and after enrichment, p2
\* without a phone, p3 sharing the phone of p1
LeadPool == {MkLead("p1", Phone1, 80), MkLead("p1", Phone1, 40), MkLead("p2", NoPhone, 60),
             MkLead("p3", Phone1, 70)}
\* FinalLead.tier
Tier(lead) == IF lead.score >= 75 THEN "hot" ELSE IF lead.score >= 50 THEN "warm" ELSE "cold"

NoSummary == [total_leads |-> -1, hot |-> 0, warm |-> 0, cold |-> 0,
              duplicates_skipped |-> 0, duplicate_jobs |-> {}]
NoCheckpoint == [step |-> NoStep, processed |-> {}, last_index |-> 0]

(* ----------------------------- LeadScorer ----------------------------- *)
\* an EnrichedLead, as far as LeadScorer reads it: rating in tenths of a star (NoRating
\* for None), truthiness of phone, emails / primary_email, owner_name, business_hours,
\* price_level and team_members, the platforms SocialLinks has a link for, website as
\* "", an http or an https address
NoRating == -1
Ratings == {NoRating, 29, 40, 45}
ReviewCounts == {0, 4, 50, 100}
PhotoCounts == {0, 10, 20}
Websites == {"", "http://shop.example", "https://shop.example"}
Platforms == {"linkedin", "instagram", "facebook", "twitter", "youtube", "tiktok"}
SocialSets == {{}, {"linkedin"}, {"instagram", "facebook"}, {"twitter", "youtube", "tiktok"},
               {"linkedin", "instagram", "facebook"}, {"linkedin", "instagram", "twitter"},
               Platforms \ {"tiktok"}, Platforms}
EnrichedLeads ==
    [rating : Ratings, review_count : ReviewCounts, phone : BOOLEAN, website : Websites,
     email : BOOLEAN, owner_name : BOOLEAN, social_links : SocialSets,
     photos_count : PhotoCounts, business_hours : BOOLEAN, price_level : BOOLEAN,
     is_claimed : BOOLEAN, website_reachable : BOOLEAN, has_contact_form : BOOLEAN,
     team_members : BOOLEAN]

Min(a, b) == IF a <= b THEN a ELSE b
Points(cond, n) == IF cond THEN n ELSE 0
\* raw.website.startswith("https")
StartsWithHttps(website) == website = "https://shop.example"

\* LeadScorer._score_rating
ScoreRating(lead) ==
    IF lead.rating = NoRating THEN 0
    ELSE IF lead.rating >= 45 THEN 25
    ELSE IF lead.rating >= 40 THEN 20
    ELSE IF lead.rating >= 35 THEN 15
    ELSE IF lead.rating >= 30 THEN 10
    ELSE 5
\* LeadScorer._score_reviews
ScoreReviews(lead) ==
    IF lead.review_count >= 100 THEN 25
    ELSE IF lead.review_count >= 50 THEN 20
    ELSE IF lead.review_count >= 20 THEN 15
    ELSE IF lead.review_count >= 5 THEN 10
    ELSE IF lead.review_count >= 1 THEN 5
    ELSE 0
\* LeadScorer._score_completeness
ScoreCompleteness(lead) ==
    Min(Points(lead.phone, 5) + Points(lead.website # "", 5) + Points(lead.email, 8)
           + Points(lead.owner_name, 7), 25)
\* LeadScorer._score_social_presence
ScoreSocialPresence(lead) ==
    Min(Points("linkedin" \in lead.social_links, 8) + Points("instagram" \in lead.social_links, 6)
           + Points("facebook" \in lead.social_links, 5) + Points("twitter" \in lead.social_links, 3)
           + Points("youtube" \in lead.social_links, 2) + Points("tiktok" \in lead.social_links, 1), 25)
\* LeadScorer._score_business_signals
ScoreBusinessSignals(lead) ==
    Min((IF lead.photos_count >= 20 THEN 5 ELSE IF lead.photos_count >= 10 THEN 3
         ELSE IF lead.photos_count >= 1 THEN 1 ELSE 0)
           + Points(lead.business_hours, 3) + Points(lead.price_level, 2)
           + Points(lead.is_claimed, 5) + Points(lead.website_reachable, 2)
           + Points(lead.has_contact_form, 1)
           + Points(lead.website # "" /\ StartsWithHttps(lead.website), 2)
           + Points(lead.team_members, 5), 25)

\* LeadScore as LeadScorer.score constructs it
LeadScore(lead) ==
    [rating_score |-> ScoreRating(lead), review_score |-> ScoreReviews(lead),
     completeness_score |-> ScoreCompleteness(lead),
     social_presence_score |-> ScoreSocialPresence(lead),
     business_signals_score |-> ScoreBusinessSignals(lead)]
RawTotal(score) ==
    score.rating_score + score.review_score + score.completeness_score
       + score.social_presence_score + score.business_signals_score
\* LeadScore.total, in tenths of a point: min(raw_total * 100 / 125, 100.0); the component
\* scores are whole numbers, so raw_total * 1000 is a multiple of 125 and the division
\* is exact
\* total without the normalisation from 125 to 100
MutTotalTenthsRaw(score) == RawTotal(score) * 10
TotalTenths(score) == Min((RawTotal(score) * 100 * 10) \div 125, 100 * 10)
\* LeadScore.tier
LeadScoreTier(score) ==
    IF TotalTenths(score) >= 75 * 10 THEN "hot"
    ELSE IF TotalTenths(score) >= 50 * 10 THEN "warm"
    ELSE "cold"
\* ScoredLead with total_score and tier read off it
ScoredLead(lead) ==
    [lead |-> lead, score |-> LeadScore(lead), total_tenths |-> TotalTenths(LeadScore(lead)),
     tier |-> LeadScoreTier(LeadScore(lead))]
NoScored == [lead |-> "none", score |-> "none", total_tenths |-> -1, tier |-> "none"]
NoScoring == [lead |-> "none", scored |-> NoScored]

(* ------------------------------- state -------------------------------- *)
VARIABLES
    phase,         \* "startup" until lifespan has run recover_stale_jobs, then "serving"
    dbConfigured,  \* db_service.is_configured()
    db,            \* the durable store: [jobs, leads]
    jobs,          \* JobManager._jobs: job id -> Job
    tasks,         \* run_scrape_job background tasks
    nextId,        \* next unused job id (uuid4 in the code)
    nextTask,      \* number of the next background task
    now,           \* datetime.utcnow()
    resp,          \* the HTTP response being sent by this step, if it is a request
    hout,          \* what the last event_generator call has sent to its client
    scoring,       \* the lead a LeadScorer.score call was given and the ScoredLead it made
    stream,        \* an event_generator coroutine that has gone past its replay loop
    pipeline,      \* a Pipeline.run coroutine: its position, locals and the calls it has made
    callbacks      \* JobManager._callbacks: job id -> the callbacks registered beside on_event

vars == <<phase, dbConfigured, db, jobs, tasks, nextId, nextTask, now, resp, hout, scoring, stream,
          pipeline, callbacks>>

(* --------------------------- Job, add_event --------------------------- *)
\* Job.add_event
MutAddEventKeepOldest(buf, e) ==
    LET b == Append(buf, e)
    IN  IF Len(b) > max_buffer_size
        THEN SubSeq(b, 1, max_buffer_size)
        ELSE b
AddEvent(buf, e) ==
    LET b == Append(buf, e)
    IN  IF Len(b) > max_buffer_size
        THEN SubSeq(b, Len(b) - max_buffer_size + 1, Len(b))
        ELSE b

\* an event dict; seq is the number of events the job had emitted before this one
\* (it is not stored by the code: the module uses it to tell events apart)
MkEvent(type, step, msg, recoverable, data, seq) ==
    [type |-> type, step |-> step, message |-> msg, recoverable |-> recoverable,
     data |-> data, seq |-> seq]

\* Job(...) as the dataclass constructs it; gen is the identity of the object
NewJob(user, t, ckpt, skip, rstep, gen) ==
    [user_id |-> user, status |-> "pending", created_at |-> t, started_at |-> NoTime,
     completed_at |-> NoTime, cancel_requested |-> FALSE, leads |-> <<>>,
     event_buffer |-> <<>>, appended |-> 0, checkpoint |-> ckpt,
     skip_place_ids |-> skip, resume_step |-> rstep, summary |-> NoSummary,
     error |-> NoError, gen |-> gen, cancelled_from |-> "none"]

\* job.add_event(event) followed by nothing else: the event gets the next append number
JobAddEvent(job, type, step, msg, recoverable, data) ==
    [job EXCEPT !.event_buffer = AddEvent(@, MkEvent(type, step, msg, recoverable, data, job.appended)),
                !.appended = @ + 1]

(* --------------------------- durable store ---------------------------- *)
\* a row of the jobs table; created_at is filled in by the store when the row is inserted
DbRowAt(user, status, step, t) ==
    [user_id |-> user, status |-> status, checkpoint_step |-> step, error |-> NoError,
     created_at |-> t]
DbRow(user, status, step) == DbRowAt(user, status, step, 0)
DbLead(jid, user, lead) == [job_id |-> jid, user_id |-> user, lead |-> lead]

\* table("jobs").update(...).eq("job_id", jid): no row, no change
DbUpdate(d, jid, row) ==
    IF jid \in DOMAIN d.jobs THEN [d EXCEPT !.jobs[jid] = row] ELSE d

DbSetStatus(row, st) == [row EXCEPT !.status = st]
DbSetFailed(row, msg) == [row EXCEPT !.status = "failed", !.error = msg]

\* DatabaseService.cancel_job
DbCancelJob(d, jid) ==
    IF jid \in DOMAIN d.jobs /\ d.jobs[jid].status \in Active
    THEN DbUpdate(d, jid, DbSetStatus(d.jobs[jid], "cancelled"))
    ELSE d

\* DatabaseService.create_job
DbCreateJobAt(d, jid, user, t) ==
    [d EXCEPT !.jobs = [j \in DOMAIN d.jobs \cup {jid} |->
                          IF j = jid THEN DbRowAt(user, "pending", NoStep, t) ELSE d.jobs[j]]]
DbCreateJob(d, jid, user) == DbCreateJobAt(d, jid, user, 0)

\* DatabaseService.check_lead_exists: the job ids of the rows it can return ({} for
\* None); limit(1) without an order picks any matching row
CheckLeadExists(d, user, pid, phone) ==
    LET byPlace == {l \in d.leads : l.user_id = user /\ l.lead.place_id = pid}
        byPhone == {l \in d.leads : l.user_id = user /\ l.lead.phone = phone}
    IN  IF pid # "" /\ pid # "unknown" /\ byPlace # {} THEN {l.job_id : l \in byPlace}
        ELSE IF phone # NoPhone /\ Len(NormalizedPhone(phone)) >= 8
        THEN {l.job_id : l \in byPhone}
        ELSE {}
\* DatabaseService.add_lead
DbAddLead(d, jid, user, lead) == [d EXCEPT !.leads = @ \cup {DbLead(jid, user, lead)}]
\* DatabaseService.update_lead
DbUpdateLead(d, jid, pid, lead) ==
    [d EXCEPT !.leads = {IF l.job_id = jid /\ l.lead.place_id = pid
                         THEN [l EXCEPT !.lead = lead] ELSE l : l \in d.leads}]
\* DatabaseService.get_leads_for_job
DbLeadsForJob(d, jid) == {l.lead : l \in {x \in d.leads : x.job_id = jid}}
\* DatabaseService.update_job_checkpoint
DbUpdateJobCheckpoint(d, jid, step) ==
    DbUpdate(d, jid, [d.jobs[jid] EXCEPT !.checkpoint_step = step])

\* DatabaseService.get_job_place_ids
DbJobPlaceIds(d, jid) == {l.lead.place_id : l \in {x \in d.leads : x.job_id = jid}}
\* DatabaseService.get_unenriched_leads_for_job
DbLeadsForResume(d, jid) == {l.lead : l \in {x \in d.leads : x.job_id = jid}}
\* DatabaseService.reset_job_for_resume
DbResetJobForResume(d, jid) ==
    DbUpdate(d, jid, [d.jobs[jid] EXCEPT !.status = "pending", !.error = NoError])

(* --------------------------- JobManager ------------------------------- *)
\* update_status that stamps started_at on every transition to running
MutMemUpdateStatusRestamp(J, jid, st, t) ==
    IF jid \notin DOMAIN J THEN J
    ELSE [J EXCEPT ![jid] =
            [@ EXCEPT !.status = st,
                      !.started_at = IF st = "running" THEN t ELSE @,
                      !.completed_at = IF st # "running" /\ st \in Terminal THEN t ELSE @]]
\* JobManager.update_status, in-memory part
MemUpdateStatus(J, jid, st, t) ==
    IF jid \notin DOMAIN J THEN J
    ELSE LET job == J[jid]
         IN  [J EXCEPT ![jid] =
                [@ EXCEPT !.status = st,
                          !.started_at = IF st = "running" /\ job.started_at = NoTime THEN t ELSE @,
                          !.completed_at = IF ~(st = "running" /\ job.started_at = NoTime)
                                              /\ st \in Terminal THEN t ELSE @]]
\* JobManager.update_status, durable part (inside "if job:" and "if self.db:")
DbUpdateStatus(d, cfg, J, jid, st) ==
    IF cfg /\ jid \in DOMAIN J THEN DbUpdate(d, jid, DbSetStatus(d.jobs[jid], st)) ELSE d

\* JobManager.fail_job
MemFailJob(J, jid, msg, t) ==
    IF jid \notin DOMAIN J THEN J
    ELSE [J EXCEPT ![jid] =
            JobAddEvent([@ EXCEPT !.status = "failed", !.completed_at = t, !.error = msg],
                        "error", NoStep, msg, FALSE, NoLead)]
DbFailJob(d, cfg, J, jid, msg) ==
    IF cfg /\ jid \in DOMAIN J THEN DbUpdate(d, jid, DbSetFailed(d.jobs[jid], msg)) ELSE d

\* JobManager.cancel_job: the guard and the in-memory change
CanCancel(J, jid) == jid \in DOMAIN J /\ J[jid].status \in Active
\* cancel_job that forgets the cancel_requested flag
MutMemCancelJobNoFlag(J, jid, t) ==
    IF CanCancel(J, jid)
    THEN [J EXCEPT ![jid] = [@ EXCEPT !.status = "cancelled", !.completed_at = t,
                                      !.cancelled_from = J[jid].status]]
    ELSE J
MemCancelJob(J, jid, t) ==
    IF CanCancel(J, jid)
    THEN [J EXCEPT ![jid] = [@ EXCEPT !.cancel_requested = TRUE, !.status = "cancelled",
                                      !.completed_at = t, !.cancelled_from = J[jid].status]]
    ELSE J

\* JobManager.is_cancelled
IsCancelled(J, jid) == IF jid \in DOMAIN J THEN J[jid].cancel_requested ELSE FALSE

\* JobManager.update_progress, in-memory part: the status event (job.progress and the
\* event's current, total and message are not modelled)
MemUpdateProgress(J, jid, step) ==
    IF jid \notin DOMAIN J THEN J
    ELSE [J EXCEPT ![jid] = JobAddEvent(@, "status", step, "", FALSE, NoLead)]
\* JobManager.update_checkpoint
MutMemUpdateCheckpointKeepIds(J, jid, step, processed, last) ==
    IF jid \notin DOMAIN J THEN J
    ELSE [J EXCEPT ![jid].checkpoint = [step |-> step, processed |-> @.processed, last_index |-> last]]
MemUpdateCheckpoint(J, jid, step, processed, last) ==
    IF jid \notin DOMAIN J THEN J
    ELSE [J EXCEPT ![jid].checkpoint = [step |-> step, processed |-> processed, last_index |-> last]]
DbUpdateCheckpoint(d, cfg, J, jid, step) ==
    IF cfg /\ jid \in DOMAIN J THEN DbUpdateJobCheckpoint(d, jid, step) ELSE d

\* JobManager.add_lead: the outcomes it can have, each with the returned pair
\* (was_added, existing_job_id) and the job map and store it leaves
NoJob == 0
HasPlace(leads, pid) == \E i \in 1..Len(leads) : leads[i].place_id = pid
AddLeadAccepted(J, d, cfg, jid, lead) ==
    [added |-> TRUE, existing |-> NoJob,
     jobs |-> [J EXCEPT ![jid] = JobAddEvent([@ EXCEPT !.leads = Append(@, lead)],
                                            "lead", NoStep, "", FALSE, lead)],
     db |-> IF cfg THEN DbAddLead(d, jid, J[jid].user_id, lead) ELSE d]
\* a rejection that loses the id of the job holding the lead
MutAddLeadRejectedNoId(J, d, existing) == [added |-> FALSE, existing |-> NoJob, jobs |-> J, db |-> d]
AddLeadRejected(J, d, existing) == [added |-> FALSE, existing |-> existing, jobs |-> J, db |-> d]
\* add_lead without the same-job check
MutAddLeadNoSameJobCheck(J, d, cfg, jid, lead) ==
    IF jid \notin DOMAIN J THEN {AddLeadRejected(J, d, NoJob)}
    ELSE IF cfg /\ CheckLeadExists(d, J[jid].user_id, lead.place_id, lead.phone) # {}
    THEN {AddLeadRejected(J, d, e) :
             e \in CheckLeadExists(d, J[jid].user_id, lead.place_id, lead.phone)}
    ELSE {AddLeadAccepted(J, d, cfg, jid, lead)}
AddLead(J, d, cfg, jid, lead) ==
    IF jid \notin DOMAIN J THEN {AddLeadRejected(J, d, NoJob)}
    ELSE IF lead.place_id # "" /\ HasPlace(J[jid].leads, lead.place_id)
    THEN {AddLeadRejected(J, d, jid)}
    ELSE IF cfg /\ CheckLeadExists(d, J[jid].user_id, lead.place_id, lead.phone) # {}
    THEN {AddLeadRejected(J, d, e) :
             e \in CheckLeadExists(d, J[jid].user_id, lead.place_id, lead.phone)}
    ELSE {AddLeadAccepted(J, d, cfg, jid, lead)}

\* JobManager.update_lead: the first lead with that place_id is replaced, and the
\* lead_update event is emitted whether or not one was found
FirstWithPlace(leads, pid) ==
    CHOOSE i \in 1..Len(leads) :
        leads[i].place_id = pid /\ \A k \in 1..(i - 1) : leads[k].place_id # pid
MemUpdateLead(J, jid, pid, lead) ==
    IF jid \notin DOMAIN J THEN J
    ELSE LET replaced == IF HasPlace(J[jid].leads, pid)
                         THEN [J[jid].leads EXCEPT ![FirstWithPlace(J[jid].leads, pid)] = lead]
                         ELSE J[jid].leads
         IN  [J EXCEPT ![jid] = JobAddEvent([@ EXCEPT !.leads = replaced],
                                            "lead_update", NoStep, "", FALSE, lead)]
DbUpdateLeadIf(d, cfg, J, jid, pid, lead) ==
    IF cfg /\ jid \in DOMAIN J THEN DbUpdateLead(d, jid, pid, lead) ELSE d

\* JobManager.complete_job
MemCompleteJob(J, jid, summary, t) ==
    IF jid \notin DOMAIN J THEN J
    ELSE [J EXCEPT ![jid] =
            JobAddEvent([@ EXCEPT !.status = "completed", !.completed_at = t, !.summary = summary],
                        "complete", NoStep, "", FALSE, NoLead)]
DbCompleteJob(d, cfg, J, jid) ==
    IF cfg /\ jid \in DOMAIN J THEN DbUpdate(d, jid, DbSetStatus(d.jobs[jid], "completed")) ELSE d

\* JobManager.can_start_job: "ok", or which limit rejects
GlobalRunning(J) == Cardinality({j \in DOMAIN J : J[j].status \in Active})
UserRunning(J, user) == Cardinality({j \in DOMAIN J : J[j].user_id = user /\ J[j].status \in Active})
\* can_start_job without the per-user count
MutCanStartJobNoUserLimit(J, user) ==
    IF GlobalRunning(J) >= max_concurrent_jobs THEN "429_global" ELSE "ok"
CanStartJob(J, user) ==
    IF GlobalRunning(J) >= max_concurrent_jobs THEN "429_global"
    ELSE IF user # "" /\ UserRunning(J, user) >= max_jobs_per_user THEN "429_user"
    ELSE "ok"

(* ------------------------------ startup ------------------------------- *)
EmptyDb == [jobs |-> <<>>, leads |-> {}]
\* what a previous process can have left in the store under job id 1 of user u1
StoredScenarios ==
    { [jobs |-> (1 :> DbRow("u1", "running", "Generating outreach")),
       leads |-> {DbLead(1, "u1", MkLead("p1", Phone1, 80)), DbLead(1, "u1", MkLead("p2", NoPhone, 60))}],
      [jobs |-> (1 :> DbRow("u1", "cancelled", "Enriching leads")),
       leads |-> {DbLead(1, "u1", MkLead("p1", Phone1, 80))}],
      EmptyDb }

\* no callback registered for any job
NoCallbacks == <<>>

\* no Pipeline.run coroutine
NoPipeline == [pc |-> "none"]

\* no event_generator coroutine; from is the number of events the job had emitted when
\* on_event was registered and taken the number of events got from event_queue since
NoStream == [pc |-> "none", jid |-> 0, event_id |-> 0, registered |-> FALSE,
             replayed |-> 0, from |-> 0, taken |-> 0, left |-> <<>>]
\* event_queue: _notify_callbacks has called on_event with every event the job emitted
\* since on_event was registered, and the loop has taken the first stream.taken of them;
\* once _cleanup_old_jobs has deleted the subscriber list, the queue holds what was left
\* in it and gets nothing more
EventQueueIn(J, st) ==
    IF st.jid \in DOMAIN J
    THEN SelectSeq(J[st.jid].event_buffer, LAMBDA e : e.seq >= st.from + st.taken)
    ELSE <<>>
EventQueue(st) ==
    IF st.pc = "live" /\ ~st.registered THEN st.left ELSE EventQueueIn(jobs, st)
\* the answer to the last request: its status code and, for a listing, its body
NoResp == [op |-> "none", code |-> "none", body |-> <<>>]
Resp(op, code) == [op |-> op, code |-> code, body |-> <<>>]

InitSys ==
    /\ phase = "startup"
    /\ dbConfigured \in BOOLEAN
    /\ IF dbConfigured THEN db \in StoredScenarios ELSE db = EmptyDb
    /\ jobs = <<>>
    /\ tasks = {}
    /\ nextId = 2
    /\ nextTask = 1
    /\ now = 0
    /\ resp = NoResp

Init == InitSys /\ hout = <<>> /\ scoring = NoScoring /\ stream = NoStream /\ pipeline = NoPipeline /\ callbacks = NoCallbacks

\* recover_stale_jobs: the rows its query selects
\* a query that selects the pending rows only
MutOrphanedJobsPendingOnly(d) == {j \in DOMAIN d.jobs : d.jobs[j].status \in {"pending"}}
OrphanedJobs(d) == {j \in DOMAIN d.jobs : d.jobs[j].status \in {"running", "pending"}}
\* lifespan: recover_stale_jobs, then start_cleanup_task, then requests are served
RecoverStaleJobs ==
    /\ phase = "startup"
    /\ phase' = "serving"
    /\ db' = IF dbConfigured
             THEN [db EXCEPT !.jobs = [j \in DOMAIN db.jobs |->
                        IF j \in OrphanedJobs(db)
                        THEN DbSetFailed(db.jobs[j], RestartMsg) ELSE db.jobs[j]]]
             ELSE db
    /\ resp' = NoResp
    /\ UNCHANGED <<dbConfigured, jobs, tasks, nextId, nextTask, now, hout, scoring, stream, pipeline, callbacks>>


(* ------------------------- POST /scrape ------------------------------- *)
\* a run_scrape_job task with the locals of its _run_pipeline_sync call: saved_place_ids,
\* duplicate_job_ids, duplicates_count; calls counts the callbacks made so far
NewTask(n, jid, skip, rstep) ==
    [n |-> n, jid |-> jid, skip |-> skip, rstep |-> rstep, pc |-> "queued",
     exc |-> NoError, mode |-> "none", loaded |-> 0,
     saved |-> {}, dup_jobs |-> {}, dup_count |-> 0, calls |-> 0]

\* start_scrape: ban check (banned is what get_user_ban_info answers), can_start_job,
\* create_job, background_tasks.add_task
StartScrape(u, banned) ==
    /\ phase = "serving"
    /\ IF dbConfigured /\ banned
       THEN /\ resp' = Resp("scrape", "403_banned")
            /\ UNCHANGED <<jobs, db, tasks, nextId, nextTask>>
       ELSE IF CanStartJob(jobs, u) # "ok"
       THEN /\ resp' = Resp("scrape", CanStartJob(jobs, u))
            /\ UNCHANGED <<jobs, db, tasks, nextId, nextTask>>
       ELSE /\ nextId <= MaxJobs
            /\ nextTask <= MaxTasks
            /\ jobs' = [j \in DOMAIN jobs \cup {nextId} |->
                          IF j = nextId THEN NewJob(u, now, NoCheckpoint, {}, NoStep, nextTask)
                          ELSE jobs[j]]
            /\ db' = IF dbConfigured THEN DbCreateJobAt(db, nextId, u, now) ELSE db
            /\ tasks' = tasks \cup {NewTask(nextTask, nextId, {}, NoStep)}
            /\ nextId' = nextId + 1
            /\ nextTask' = nextTask + 1
            /\ resp' = Resp("scrape", "200")
    /\ UNCHANGED <<phase, dbConfigured, now, hout, scoring, stream, pipeline, callbacks>>

(* ------------------------- run_scrape_job ----------------------------- *)
\* run_scrape_job up to the await: update_status(job_id, "running"), run_in_executor
StartRun(t) ==
    /\ t \in tasks
    /\ t.pc = "queued"
    /\ jobs' = MemUpdateStatus(jobs, t.jid, "running", now)
    /\ db' = DbUpdateStatus(db, dbConfigured, jobs, t.jid, "running")
    /\ tasks' = (tasks \ {t}) \cup {[t EXCEPT !.pc = "executing"]}
    /\ resp' = NoResp
    /\ UNCHANGED <<phase, dbConfigured, nextId, nextTask, now, hout, scoring, stream, pipeline, callbacks>>

\* _run_pipeline_sync on the worker thread: the resume reload, then Pipeline(...),
\* whose constructor takes no lead_update_callback, saved_place_ids, resume_leads,
\* resume_step or resume_scored_leads argument and raises TypeError
RunMode(t) ==
    IF t.skip = {} THEN "new"
    ELSE IF t.rstep # NoStep /\ ContainsOutreach(t.rstep) THEN "outreach"
    ELSE "enrich"
\* the locals when the closures are defined: the reload of the stored leads
TaskAfterReload(t, d, cfg) ==
    LET reloaded == IF RunMode(t) # "new" /\ cfg THEN DbLeadsForResume(d, t.jid) ELSE {}
    IN  [t EXCEPT !.mode = RunMode(t), !.loaded = Cardinality(reloaded),
                  !.saved = {l.place_id : l \in reloaded}]
PipelineCtorRaises == TRUE
RunPipelineSync(t) ==
    /\ t \in tasks
    /\ t.pc = "executing"
    /\ tasks' = (tasks \ {t}) \cup
                 {IF PipelineCtorRaises
                  THEN [TaskAfterReload(t, db, dbConfigured) EXCEPT !.pc = "returned",
                                                                    !.exc = CtorErrorMsg]
                  ELSE [TaskAfterReload(t, db, dbConfigured) EXCEPT !.pc = "in_pipeline"]}
    /\ resp' = NoResp
    /\ UNCHANGED <<phase, dbConfigured, db, jobs, nextId, nextTask, now, hout, scoring, stream, pipeline, callbacks>>

\* run_scrape_job: the JobSummary it builds, from the job's leads or, when there are
\* none in memory, from the stored leads
CountTier(leads, tier) == Cardinality({i \in 1..Len(leads) : Tier(leads[i]) = tier})
RunSummary(J, d, cfg, t) ==
    LET saved_leads == IF t.jid \in DOMAIN J THEN J[t.jid].leads ELSE <<>>
        db_leads == IF cfg THEN DbLeadsForJob(d, t.jid) ELSE {}
    IN  IF saved_leads = <<>> /\ db_leads # {}
        THEN [total_leads |-> Cardinality(db_leads),
              hot |-> Cardinality({l \in db_leads : Tier(l) = "hot"}),
              warm |-> Cardinality({l \in db_leads : Tier(l) = "warm"}),
              cold |-> Cardinality({l \in db_leads : Tier(l) = "cold"}),
              duplicates_skipped |-> t.dup_count, duplicate_jobs |-> t.dup_jobs]
        ELSE [total_leads |-> Len(saved_leads),
              hot |-> CountTier(saved_leads, "hot"),
              warm |-> CountTier(saved_leads, "warm"),
              cold |-> CountTier(saved_leads, "cold"),
              duplicates_skipped |-> t.dup_count, duplicate_jobs |-> t.dup_jobs]

\* str(e) of the exception a failing store call raises
StoreErrorMsg == "store request failed"
\* run_scrape_job after the await: the summary and complete_job, or the except branch;
\* up tells whether the store answers the calls of this step or raises on each of them
\* (db_service.get_leads_for_job is called inside the try, without a handler of its own)
FinishRunOn(t, up) ==
    /\ t \in tasks
    /\ t.pc = "returned"
    /\ LET saved_leads == IF t.jid \in DOMAIN jobs THEN jobs[t.jid].leads ELSE <<>>
           raised == IF t.exc = NoError /\ saved_leads = <<>> /\ dbConfigured /\ ~up
                     THEN StoreErrorMsg ELSE t.exc
       IN  IF raised = NoError
           THEN /\ jobs' = MemCompleteJob(jobs, t.jid, RunSummary(jobs, db, dbConfigured /\ up, t), now)
                /\ db' = DbCompleteJob(db, dbConfigured /\ up, jobs, t.jid)
           ELSE IF ContainsCancelled(raised)
           THEN /\ jobs' = MemUpdateStatus(jobs, t.jid, "cancelled", now)
                /\ db' = DbUpdateStatus(db, dbConfigured /\ up, jobs, t.jid, "cancelled")
           ELSE /\ jobs' = MemFailJob(jobs, t.jid, raised, now)
                /\ db' = DbFailJob(db, dbConfigured /\ up, jobs, t.jid, raised)
    /\ tasks' = tasks \ {t}
    /\ resp' = NoResp
    /\ UNCHANGED <<phase, dbConfigured, nextId, nextTask, now, hout, scoring, stream, pipeline, callbacks>>
FinishRun(t) == FinishRunOn(t, TRUE)

(* ------------- the callbacks of _run_pipeline_sync, event replay ------------- *)
\* progress_callback: raises when the job is cancelled, else update_progress and
\* update_checkpoint
ProgressCallbackOn(t, step, current, up) ==
    /\ t \in tasks
    /\ t.pc = "in_pipeline"
    /\ t.calls < MaxCalls
    /\ IF IsCancelled(jobs, t.jid)
       THEN /\ tasks' = (tasks \ {t}) \cup {[t EXCEPT !.pc = "returned", !.exc = CancelledMsg]}
            /\ UNCHANGED <<jobs, db>>
       ELSE /\ jobs' = MemUpdateCheckpoint(MemUpdateProgress(jobs, t.jid, step),
                                           t.jid, step, t.saved, current)
            /\ db' = DbUpdateCheckpoint(db, dbConfigured /\ up, jobs, t.jid, step)
            /\ tasks' = (tasks \ {t}) \cup {[t EXCEPT !.calls = @ + 1]}
    /\ resp' = NoResp
    /\ UNCHANGED <<phase, dbConfigured, nextId, nextTask, now, hout, scoring, stream, pipeline, callbacks>>
ProgressCallback(t, step, current) == ProgressCallbackOn(t, step, current, TRUE)

\* lead_callback
LeadCallbackOn(t, lead, up) ==
    /\ t \in tasks
    /\ t.pc = "in_pipeline"
    /\ t.calls < MaxCalls
    /\ IF lead.place_id \in t.skip
       THEN /\ tasks' = (tasks \ {t}) \cup {[t EXCEPT !.calls = @ + 1]}
            /\ UNCHANGED <<jobs, db>>
       ELSE \E r \in AddLead(jobs, db, dbConfigured /\ up, t.jid, lead) :
            /\ jobs' = r.jobs
            /\ db' = r.db
            /\ tasks' = (tasks \ {t}) \cup
                  {IF r.added
                   THEN [t EXCEPT !.calls = @ + 1, !.saved = @ \cup {lead.place_id}]
                   ELSE [t EXCEPT !.calls = @ + 1, !.dup_count = @ + 1,
                                  !.dup_jobs = IF r.existing # NoJob
                                               THEN @ \cup {r.existing} ELSE @]}
    /\ resp' = NoResp
    /\ UNCHANGED <<phase, dbConfigured, nextId, nextTask, now, hout, scoring, stream, pipeline, callbacks>>
LeadCallback(t, lead) == LeadCallbackOn(t, lead, TRUE)

\* lead_update_callback
LeadUpdateCallbackOn(t, lead, up) ==
    /\ t \in tasks
    /\ t.pc = "in_pipeline"
    /\ t.calls < MaxCalls
    /\ IF lead.place_id \in t.saved
       THEN /\ jobs' = MemUpdateLead(jobs, t.jid, lead.place_id, lead)
            /\ db' = DbUpdateLeadIf(db, dbConfigured /\ up, jobs, t.jid, lead.place_id, lead)
       ELSE UNCHANGED <<jobs, db>>
    /\ tasks' = (tasks \ {t}) \cup {[t EXCEPT !.calls = @ + 1]}
    /\ resp' = NoResp
    /\ UNCHANGED <<phase, dbConfigured, nextId, nextTask, now, hout, scoring, stream, pipeline, callbacks>>
LeadUpdateCallback(t, lead) == LeadUpdateCallbackOn(t, lead, TRUE)

\* pipeline.run returns and _run_pipeline_sync attaches the duplicate counters
PipelineReturns(t) ==
    /\ t \in tasks
    /\ t.pc = "in_pipeline"
    /\ tasks' = (tasks \ {t}) \cup {[t EXCEPT !.pc = "returned"]}
    /\ resp' = NoResp
    /\ UNCHANGED <<phase, dbConfigured, db, jobs, nextId, nextTask, now, hout, scoring, stream, pipeline, callbacks>>

\* event_generator up to the end of the replay loop; last_event_id None is NoLastId
NoLastId == -1
NoEventId == -1
StartFrom(last_event_id) ==
    (IF last_event_id = NoLastId \/ last_event_id = 0 THEN -1 ELSE last_event_id) + 1
Frame(id, event) == [id |-> id, event |-> event]
ErrorFrame(msg) == Frame(NoEventId, MkEvent("error", NoStep, msg, FALSE, NoLead, -1))
ReplayFrames(buffer, last_event_id) ==
    LET first == StartFrom(last_event_id)
        n == IF Len(buffer) > first THEN Len(buffer) - first ELSE 0
    IN  [i \in 1..n |-> Frame(first + i - 1, buffer[first + i])]
EventGenerator(u, jid, last_event_id) ==
    /\ phase = "serving"
    /\ hout' = IF jid \notin DOMAIN jobs THEN <<ErrorFrame("Job not found")>>
               ELSE IF jobs[jid].user_id # u /\ u # "dev-user" THEN <<ErrorFrame("Not authorized")>>
               ELSE ReplayFrames(jobs[jid].event_buffer, last_event_id)
    /\ resp' = NoResp
    /\ UNCHANGED <<phase, dbConfigured, db, jobs, tasks, nextId, nextTask, now, scoring, stream, pipeline, callbacks>>

\* update_progress called MaxAppend times on a job
EmitProgress(jid, step) ==
    /\ jid \in DOMAIN jobs
    /\ jobs[jid].appended < MaxAppend
    /\ jobs' = MemUpdateProgress(jobs, jid, step)
    /\ hout' = <<>>
    /\ resp' = NoResp
    /\ UNCHANGED <<phase, dbConfigured, db, tasks, nextId, nextTask, now, scoring, stream, pipeline, callbacks>>

(* ---------------------- DELETE /jobs/{job_id} ------------------------- *)
\* routes/jobs.py cancel_job
CancelRoute(u, jid) ==
    /\ phase = "serving"
    /\ IF jid \notin DOMAIN jobs
       THEN /\ resp' = Resp("cancel", "404")
            /\ UNCHANGED <<jobs, db>>
       ELSE IF jobs[jid].user_id # u /\ u # "dev-user"
       THEN /\ resp' = Resp("cancel", "403")
            /\ UNCHANGED <<jobs, db>>
       ELSE IF jobs[jid].status \notin Active
       THEN /\ resp' = Resp("cancel", "400")
            /\ UNCHANGED <<jobs, db>>
       ELSE /\ jobs' = MemCancelJob(jobs, jid, now)
            /\ db' = IF dbConfigured /\ CanCancel(jobs, jid) THEN DbCancelJob(db, jid) ELSE db
            /\ resp' = Resp("cancel", IF CanCancel(jobs, jid) THEN "200" ELSE "400")
    /\ UNCHANGED <<phase, dbConfigured, tasks, nextId, nextTask, now, hout, scoring, stream, pipeline, callbacks>>

(* --------------------- POST /jobs/{job_id}/resume --------------------- *)
\* JobManager.prepare_for_resume: the Job it registers
\* prepare_for_resume that drops the skip set
MutResumedJobNoSkip(d, jid, t, gen) ==
    NewJob(d.jobs[jid].user_id, t, NoCheckpoint, {}, d.jobs[jid].checkpoint_step, gen)
ResumedJob(d, jid, t, gen) ==
    NewJob(d.jobs[jid].user_id, t,
           IF d.jobs[jid].checkpoint_step = NoStep THEN NoCheckpoint
           ELSE [step |-> d.jobs[jid].checkpoint_step, processed |-> {}, last_index |-> 0],
           DbJobPlaceIds(d, jid), d.jobs[jid].checkpoint_step, gen)

\* routes/jobs.py resume_job
ResumeRoute(u, jid) ==
    /\ phase = "serving"
    /\ IF ~dbConfigured
       THEN /\ resp' = Resp("resume", "503")
            /\ UNCHANGED <<jobs, db, tasks, nextTask>>
       ELSE IF jid \notin DOMAIN db.jobs
       THEN /\ resp' = Resp("resume", "404")
            /\ UNCHANGED <<jobs, db, tasks, nextTask>>
       ELSE IF db.jobs[jid].user_id # u /\ u # "dev-user"
       THEN /\ resp' = Resp("resume", "403")
            /\ UNCHANGED <<jobs, db, tasks, nextTask>>
       ELSE IF db.jobs[jid].status \notin Resumable
       THEN /\ resp' = Resp("resume", "400")
            /\ UNCHANGED <<jobs, db, tasks, nextTask>>
       ELSE IF CanStartJob(jobs, u) # "ok"
       THEN /\ resp' = Resp("resume", CanStartJob(jobs, u))
            /\ UNCHANGED <<jobs, db, tasks, nextTask>>
       ELSE /\ nextTask <= MaxTasks
            /\ jobs' = [j \in DOMAIN jobs \cup {jid} |->
                          IF j = jid THEN ResumedJob(db, jid, now, nextTask) ELSE jobs[j]]
            /\ db' = DbResetJobForResume(db, jid)
            /\ tasks' = tasks \cup {NewTask(nextTask, jid, DbJobPlaceIds(db, jid),
                                            db.jobs[jid].checkpoint_step)}
            /\ nextTask' = nextTask + 1
            /\ resp' = Resp("resume", "200")
    /\ UNCHANGED <<phase, dbConfigured, nextId, now, hout, scoring, stream, pipeline, callbacks>>

(* ----------------------------- GET /jobs ------------------------------ *)
\* a JobStatusResponse built from a Job, and one built from a row of the store
MemEntry(J, j) ==
    [job_id |-> j, source |-> "memory", status |-> J[j].status, error |-> J[j].error,
     created_at |-> J[j].created_at, summary |-> J[j].summary]
DbEntry(d, j) ==
    [job_id |-> j, source |-> "store", status |-> d.jobs[j].status, error |-> d.jobs[j].error,
     created_at |-> d.jobs[j].created_at]
\* the sequences that enumerate a set once each
Enumerations(S) ==
    {seq \in [1..Cardinality(S) -> S] : \A a, b \in 1..Cardinality(S) : a # b => seq[a] # seq[b]}
\* job_responses before the sort: the caller's jobs in memory in the order of the dict,
\* then the rows of the store that are not among them, in the order the store returns
\* (created_at descending)
ListedBeforeSort(J, d, cfg, u) ==
    LET in_memory_job_ids == {j \in DOMAIN J : J[j].user_id = u}
        db_jobs == IF cfg THEN {j \in DOMAIN d.jobs : d.jobs[j].user_id = u} ELSE {}
        rows == {seq \in Enumerations(db_jobs) :
                    \A a, b \in 1..Len(seq) :
                       a < b => d.jobs[seq[a]].created_at >= d.jobs[seq[b]].created_at}
    IN  {[i \in 1..Len(m) |-> MemEntry(J, m[i])] \o
         [i \in 1..Len(SelectSeq(r, LAMBDA j : j \notin in_memory_job_ids)) |->
             DbEntry(d, SelectSeq(r, LAMBDA j : j \notin in_memory_job_ids)[i])] :
            m \in Enumerations(in_memory_job_ids), r \in rows}
\* list.sort(key=get_sort_key, reverse=True): stable, equal keys keep their order
MutInsertAscending(sorted, e) ==
    LET k == Cardinality({i \in 1..Len(sorted) : sorted[i].created_at <= e.created_at})
    IN  SubSeq(sorted, 1, k) \o <<e>> \o SubSeq(sorted, k + 1, Len(sorted))
InsertDescending(sorted, e) ==
    LET k == Cardinality({i \in 1..Len(sorted) : sorted[i].created_at >= e.created_at})
    IN  SubSeq(sorted, 1, k) \o <<e>> \o SubSeq(sorted, k + 1, Len(sorted))
RECURSIVE SortDescending(_)
SortDescending(seq) ==
    IF seq = <<>> THEN <<>>
    ELSE InsertDescending(SortDescending(SubSeq(seq, 1, Len(seq) - 1)), seq[Len(seq)])
\* routes/jobs.py list_jobs
ListJobs(u) ==
    /\ phase = "serving"
    /\ \E listed \in ListedBeforeSort(jobs, db, dbConfigured, u) :
          resp' = [op |-> "list", code |-> "200", body |-> SortDescending(listed)]
    /\ UNCHANGED <<phase, dbConfigured, db, jobs, tasks, nextId, nextTask, now, hout, scoring, stream, pipeline, callbacks>>

(* ------------- GET /jobs/{job_id}, /leads, /export, delete ------------- *)
\* the callers of the routes: "dev-user" is the user id of a request made without
\* authentication configured
Callers == Users \cup {"dev-user"}
\* "x.user_id != auth_user.user_id and auth_user.user_id != 'dev-user'"
MutNotAuthorizedNever(owner, u) == FALSE
NotAuthorized(owner, u) == owner # u /\ u # "dev-user"
Answer(op, code, body) == [op |-> op, code |-> code, body |-> body]
\* routes/jobs.py get_job_status
GetJobStatus(u, jid) ==
    /\ phase = "serving"
    /\ resp' = IF jid \in DOMAIN jobs
               THEN IF NotAuthorized(jobs[jid].user_id, u) THEN Resp("status", "403")
                    ELSE Answer("status", "200", <<MemEntry(jobs, jid)>>)
               ELSE IF dbConfigured /\ jid \in DOMAIN db.jobs
               THEN IF NotAuthorized(db.jobs[jid].user_id, u) THEN Resp("status", "403")
                    ELSE Answer("status", "200", <<DbEntry(db, jid)>>)
               ELSE Resp("status", "404")
    /\ UNCHANGED <<phase, dbConfigured, db, jobs, tasks, nextId, nextTask, now, hout, scoring, stream, pipeline, callbacks>>
\* routes/jobs.py get_job_leads: the answers it can give (the stored leads come in the
\* order of their insertion, which the store does not keep in the module)
JobLeadsAnswers(op, u, jid) ==
    IF jid \in DOMAIN jobs /\ jobs[jid].leads # <<>>
    THEN IF NotAuthorized(jobs[jid].user_id, u) THEN {Resp(op, "403")}
         ELSE {Answer(op, "200", jobs[jid].leads)}
    ELSE IF dbConfigured /\ jid \in DOMAIN db.jobs
    THEN IF NotAuthorized(db.jobs[jid].user_id, u) THEN {Resp(op, "403")}
         ELSE {Answer(op, "200", leads) : leads \in Enumerations(DbLeadsForJob(db, jid))}
    ELSE {Resp(op, "404")}
GetJobLeads(u, jid) ==
    /\ phase = "serving"
    /\ resp' \in JobLeadsAnswers("leads", u, jid)
    /\ UNCHANGED <<phase, dbConfigured, db, jobs, tasks, nextId, nextTask, now, hout, scoring, stream, pipeline, callbacks>>
\* routes/jobs.py export_job_leads: get_job_leads, then 404 when there is no lead
ExportJobLeads(u, jid) ==
    /\ phase = "serving"
    /\ \E a \in JobLeadsAnswers("export", u, jid) :
          resp' = IF a.code = "200" /\ a.body = <<>> THEN Resp("export", "404") ELSE a
    /\ UNCHANGED <<phase, dbConfigured, db, jobs, tasks, nextId, nextTask, now, hout, scoring, stream, pipeline, callbacks>>
\* routes/jobs.py delete_job: the in-memory part, then the store part
DbDeleteJob(d, jid) ==
    [jobs |-> [j \in DOMAIN d.jobs \ {jid} |-> d.jobs[j]],
     leads |-> {l \in d.leads : l.job_id # jid}]
DeleteJob(u, jid) ==
    /\ phase = "serving"
    /\ IF jid \in DOMAIN jobs /\ NotAuthorized(jobs[jid].user_id, u)
       THEN /\ resp' = Resp("delete", "403")
            /\ UNCHANGED <<jobs, db>>
       ELSE IF jid \in DOMAIN jobs /\ jobs[jid].status \in Active
       THEN /\ resp' = Resp("delete", "400")
            /\ UNCHANGED <<jobs, db>>
       ELSE /\ jobs' = [j \in DOMAIN jobs \ {jid} |-> jobs[j]]
            /\ IF dbConfigured /\ jid \in DOMAIN db.jobs
               THEN IF NotAuthorized(db.jobs[jid].user_id, u)
                    THEN resp' = Resp("delete", "403") /\ db' = db
                    ELSE resp' = Resp("delete", "200") /\ db' = DbDeleteJob(db, jid)
               ELSE /\ resp' = Resp("delete", IF jid \in DOMAIN jobs THEN "200" ELSE "404")
                    /\ db' = db
    /\ UNCHANGED <<phase, dbConfigured, tasks, nextId, nextTask, now, hout, scoring, stream, pipeline, callbacks>>

(* --------------------------- _cleanup_loop ---------------------------- *)
\* JobManager._check_timed_out_jobs: the jobs it fails
\* _check_timed_out_jobs without the status test
MutTimedOutAnyStatus(J, t) ==
    {j \in DOMAIN J : J[j].started_at # NoTime /\ J[j].started_at < t - job_timeout_minutes}
TimedOut(J, t) ==
    {j \in DOMAIN J : J[j].status = "running" /\ J[j].started_at # NoTime
                      /\ J[j].started_at < t - job_timeout_minutes}
\* fail_job for every job of a set
FailAll(J, S, msg, t) ==
    [j \in DOMAIN J |-> IF j \in S THEN MemFailJob(J, j, msg, t)[j] ELSE J[j]]
DbFailAll(d, cfg, S, msg) ==
    IF cfg THEN [d EXCEPT !.jobs = [j \in DOMAIN d.jobs |->
                    IF j \in S THEN DbSetFailed(d.jobs[j], msg) ELSE d.jobs[j]]]
    ELSE d
\* JobManager._cleanup_old_jobs: the jobs it drops
MutExpiredAnyStatus(J, t) ==
    {j \in DOMAIN J : J[j].created_at < t - job_ttl_hours}
Expired(J, t) ==
    {j \in DOMAIN J : J[j].created_at < t - job_ttl_hours /\ J[j].status \in Terminal}

\* one turn of _cleanup_loop: _check_timed_out_jobs, then _cleanup_old_jobs, which
\* deletes _callbacks[job_id] with the job (on_event of a live stream is no longer
\* registered; the stream stays in its loop)
Sweep ==
    /\ phase = "serving"
    /\ LET failed == FailAll(jobs, TimedOut(jobs, now), TimeoutMsg, now)
       IN  /\ jobs' = [j \in (DOMAIN failed) \ Expired(failed, now) |-> failed[j]]
           /\ stream' = IF stream.registered /\ stream.jid \in Expired(failed, now)
                        THEN [stream EXCEPT !.registered = FALSE,
                                            !.left = EventQueueIn(failed, stream)]
                        ELSE stream
    /\ db' = DbFailAll(db, dbConfigured, TimedOut(jobs, now), TimeoutMsg)
    /\ resp' = NoResp
    /\ UNCHANGED <<phase, dbConfigured, tasks, nextId, nextTask, now, hout, scoring, pipeline, callbacks>>

\* time passes
Tick ==
    /\ now < MaxTime
    /\ now' = now + 1
    /\ resp' = NoResp
    /\ UNCHANGED <<phase, dbConfigured, db, jobs, tasks, nextId, nextTask, hout, scoring, stream, pipeline, callbacks>>

(* --------------------------- specification ---------------------------- *)
Next ==
    \/ RecoverStaleJobs
    \/ \E u \in Users, banned \in BOOLEAN : StartScrape(u, banned)
    \/ \E t \in tasks : StartRun(t)
    \/ \E t \in tasks : RunPipelineSync(t)
    \/ \E t \in tasks : FinishRun(t)
    \/ \E u \in Users, j \in JobIds : CancelRoute(u, j)
    \/ \E u \in Users, j \in JobIds : ResumeRoute(u, j)
    \/ Sweep
    \/ Tick

Spec == Init /\ [][Next]_vars

\* the requests on jobs, beside runs that start and are ended by a cancel or by the
\* timeout check of the cleanup loop
NextRoutes ==
    \/ RecoverStaleJobs
    \/ \E u \in Users, banned \in BOOLEAN : StartScrape(u, banned)
    \/ \E t \in tasks : StartRun(t)
    \/ \E u \in Users, j \in JobIds : CancelRoute(u, j)
    \/ \E u \in Users, j \in JobIds : ResumeRoute(u, j)
    \/ Sweep
    \/ Tick
    \/ \E u \in Users : ListJobs(u)
SpecRoutes == Init /\ [][NextRoutes]_vars

\* the cleanup loop never stops ("while True: await asyncio.sleep(60)") and time passes
\* (a process that starts with an empty store or with none)
InitFair == Init /\ db = EmptyDb
SpecFair == InitFair /\ [][Next]_vars /\ WF_vars(Tick) /\ WF_vars(Sweep)

(* ------------- a pipeline run that reaches its callbacks -------------- *)
\* stores a previous run can have left under job id 1 of user u1
StoreCompleted ==
    [jobs |-> (1 :> DbRow("u1", "completed", "Generating outreach")),
     leads |-> {DbLead(1, "u1", MkLead("p1", Phone1, 80))}]
StoreFailedOutreach ==
    [jobs |-> (1 :> DbRow("u1", "failed", "Generating outreach")),
     leads |-> {DbLead(1, "u1", MkLead("p1", Phone1, 80)), DbLead(1, "u1", MkLead("p2", NoPhone, 60))}]
StoreCancelledEnrich ==
    [jobs |-> (1 :> DbRow("u1", "cancelled", "Enriching leads")),
     leads |-> {DbLead(1, "u1", MkLead("p1", Phone1, 80))}]
\* the run stopped at its first "Generating outreach" step, before any lead was saved
StoreFailedNoLeads ==
    [jobs |-> (1 :> DbRow("u1", "failed", "Generating outreach")), leads |-> {}]

\* the state in which the run of a new job 2 of u1 has defined its callbacks:
\* start_scrape, then run_scrape_job up to the executor, then the closures
InitNewRun(cfg, d) ==
    LET created == (2 :> NewJob("u1", 0, NoCheckpoint, {}, NoStep, 1))
        stored == IF cfg THEN DbCreateJob(d, 2, "u1") ELSE d
    IN  /\ dbConfigured = cfg
        /\ jobs = MemUpdateStatus(created, 2, "running", 0)
        /\ db = DbUpdateStatus(stored, cfg, created, 2, "running")
        /\ tasks = {[TaskAfterReload(NewTask(1, 2, {}, NoStep), stored, cfg) EXCEPT !.pc = "in_pipeline"]}
        /\ nextId = 3
\* the same for the run of the resumed job 1
InitResumedRun(d) ==
    LET resumed == (1 :> ResumedJob(d, 1, 0, 1))
        stored == DbResetJobForResume(d, 1)
    IN  /\ dbConfigured = TRUE
        /\ jobs = MemUpdateStatus(resumed, 1, "running", 0)
        /\ db = DbUpdateStatus(stored, TRUE, resumed, 1, "running")
        /\ tasks = {[TaskAfterReload(NewTask(1, 1, DbJobPlaceIds(d, 1), d.jobs[1].checkpoint_step),
                                     stored, TRUE) EXCEPT !.pc = "in_pipeline"]}
        /\ nextId = 2
InitRun ==
    /\ \/ InitNewRun(FALSE, EmptyDb)
       \/ InitNewRun(TRUE, StoreCompleted)
       \/ InitResumedRun(StoreFailedOutreach)
       \/ InitResumedRun(StoreCancelledEnrich)
       \/ InitResumedRun(StoreFailedNoLeads)
    /\ phase = "serving"
    /\ nextTask = 2
    /\ now = 0
    /\ resp = NoResp
    /\ hout = <<>>
    /\ scoring = NoScoring
    /\ stream = NoStream /\ pipeline = NoPipeline /\ callbacks = NoCallbacks

NextRun ==
    \/ \E t \in tasks, step \in {"Enriching leads", "Generating outreach"}, current \in Currents :
          ProgressCallback(t, step, current)
    \/ \E t \in tasks, lead \in LeadPool : LeadCallback(t, lead)
    \/ \E t \in tasks, lead \in LeadPool : LeadUpdateCallback(t, lead)
    \/ \E t \in tasks : PipelineReturns(t)
    \/ \E t \in tasks : FinishRun(t)
    \/ \E u \in Users, j \in DOMAIN jobs : CancelRoute(u, j)

SpecRun == InitRun /\ [][NextRun]_vars

(* ------------------- JobManager.update_lead, called ------------------- *)
\* what update_lead returns: False when the job is not in memory, True after the loop
\* over job.leads, whether or not the loop found the place_id
UpdateLeadReturns(J, jid, pid) == jid \in DOMAIN J
\* JobManager.update_lead(job_id, place_id, lead) with its return value as the answer; a
\* job is given at most MaxCalls events
UpdateLead(jid, pid, lead) ==
    /\ phase = "serving"
    /\ jid \in DOMAIN jobs => jobs[jid].appended < MaxCalls
    /\ jobs' = MemUpdateLead(jobs, jid, pid, lead)
    /\ db' = DbUpdateLeadIf(db, dbConfigured, jobs, jid, pid, lead)
    /\ resp' = Resp("update_lead", IF UpdateLeadReturns(jobs, jid, pid) THEN "True" ELSE "False")
    /\ UNCHANGED <<phase, dbConfigured, tasks, nextId, nextTask, now, hout, scoring, stream, pipeline, callbacks>>

NextUpdateLead ==
    \/ \E t \in tasks, lead \in LeadPool : LeadCallback(t, lead)
    \/ \E jid \in JobIds, lead \in LeadPool : UpdateLead(jid, lead.place_id, lead)

SpecUpdateLead == InitRun /\ [][NextUpdateLead]_vars

(* ------------- a pipeline run beside a store that may fail ------------ *)
\* the run of SpecRun, with each step's store calls either answered or all raising
NextStoreDown ==
    \/ \E t \in tasks, step \in {"Enriching leads", "Generating outreach"}, up \in BOOLEAN :
          ProgressCallbackOn(t, step, 1, up)
    \/ \E t \in tasks, lead \in LeadPool, up \in BOOLEAN : LeadCallbackOn(t, lead, up)
    \/ \E t \in tasks, lead \in LeadPool, up \in BOOLEAN : LeadUpdateCallbackOn(t, lead, up)
    \/ \E t \in tasks : PipelineReturns(t)
    \/ \E t \in tasks, up \in BOOLEAN : FinishRunOn(t, up)
    \/ \E u \in Users, j \in DOMAIN jobs : CancelRoute(u, j)

SpecStoreDown == InitRun /\ [][NextStoreDown]_vars

(* ------------- two runs of one job id reaching their callbacks ------------- *)
\* job 2 of u1 was cancelled while its run was still queued and then resumed; the queued
\* run (task 1) and the resumed run (task 2) have both started and defined their
\* callbacks on the Job that resume registered
InitTwoRuns ==
    LET created == (2 :> NewJob("u1", 0, NoCheckpoint, {}, NoStep, 1))
        d1 == DbCancelJob(DbCreateJob(EmptyDb, 2, "u1"), 2)
        resumed == (2 :> ResumedJob(d1, 2, 0, 2))
        d2 == DbResetJobForResume(d1, 2)
        started == MemUpdateStatus(MemUpdateStatus(resumed, 2, "running", 0), 2, "running", 0)
        d3 == DbUpdateStatus(d2, TRUE, resumed, 2, "running")
    IN  /\ dbConfigured = TRUE
        /\ jobs = started
        /\ db = d3
        /\ tasks = {[TaskAfterReload(NewTask(1, 2, {}, NoStep), d3, TRUE) EXCEPT !.pc = "in_pipeline"],
                    [TaskAfterReload(NewTask(2, 2, DbJobPlaceIds(d1, 2), d1.jobs[2].checkpoint_step),
                                     d3, TRUE) EXCEPT !.pc = "in_pipeline"]}
        /\ nextId = 3
        /\ phase = "serving"
        /\ nextTask = 3
        /\ now = 0
        /\ resp = NoResp
        /\ hout = <<>>
        /\ scoring = NoScoring
        /\ stream = NoStream /\ pipeline = NoPipeline /\ callbacks = NoCallbacks

\* the pipeline of the resumed run makes callbacks; the pipeline of the stale run finds
\* nothing to report and only returns
NextTwoRuns ==
    \/ \E t \in tasks, step \in {"Enriching leads", "Generating outreach"} :
          t.n = 2 /\ ProgressCallback(t, step, 1)
    \/ \E t \in tasks, lead \in LeadPool : t.n = 2 /\ LeadCallback(t, lead)
    \/ \E t \in tasks, lead \in LeadPool : t.n = 2 /\ LeadUpdateCallback(t, lead)
    \/ \E t \in tasks : PipelineReturns(t)
    \/ \E t \in tasks : FinishRun(t)
    \/ \E u \in Users, j \in DOMAIN jobs : CancelRoute(u, j)

SpecTwoRuns == InitTwoRuns /\ [][NextTwoRuns]_vars

(* ------------------- a subscriber of a job's events ------------------- *)
\* "event_type in ("complete", "error") and not event.get("recoverable")"
IsTerminalEvent(event) == event.type \in {"complete", "error"} /\ ~event.recoverable

\* event_generator up to register_callback: the error frames, the replay loop (event_id
\* is the last index it sent), the return for a finished job, else on_event registered
StreamOpen(u, jid, last_event_id) ==
    /\ phase = "serving"
    /\ stream.pc # "live"
    /\ IF jid \notin DOMAIN jobs
       THEN /\ hout' = <<ErrorFrame("Job not found")>>
            /\ stream' = [NoStream EXCEPT !.pc = "closed", !.jid = jid]
       ELSE IF jobs[jid].user_id # u /\ u # "dev-user"
       THEN /\ hout' = <<ErrorFrame("Not authorized")>>
            /\ stream' = [NoStream EXCEPT !.pc = "closed", !.jid = jid]
       ELSE LET frames == ReplayFrames(jobs[jid].event_buffer, last_event_id)
                finished == jobs[jid].status \in Terminal
            IN  /\ hout' = frames
                /\ stream' = [pc |-> IF finished THEN "closed" ELSE "live",
                              jid |-> jid,
                              event_id |-> IF frames = <<>> THEN 0 ELSE frames[Len(frames)].id,
                              registered |-> ~finished,
                              replayed |-> Len(frames),
                              from |-> jobs[jid].appended,
                              taken |-> 0,
                              left |-> <<>>]
    /\ resp' = NoResp
    /\ UNCHANGED <<phase, dbConfigured, db, jobs, tasks, nextId, nextTask, now, scoring, pipeline, callbacks>>

\* one turn of the live loop with an event in the queue: the frame under event_id + 1,
\* then break and the finally clause if the event is terminal
StreamLive ==
    /\ stream.pc = "live"
    /\ EventQueue(stream) # <<>>
    /\ LET event == Head(EventQueue(stream))
       IN  /\ hout' = Append(hout, Frame(stream.event_id + 1, event))
           /\ stream' = IF IsTerminalEvent(event)
                        THEN [stream EXCEPT !.event_id = @ + 1, !.taken = @ + 1,
                                            !.pc = "closed", !.registered = FALSE,
                                            !.left = <<>>]
                        ELSE [stream EXCEPT !.event_id = @ + 1, !.taken = @ + 1,
                                            !.left = IF @ = <<>> THEN @ ELSE Tail(@)]
    /\ resp' = NoResp
    /\ UNCHANGED <<phase, dbConfigured, db, jobs, tasks, nextId, nextTask, now, scoring, pipeline, callbacks>>

\* the client goes away: the generator is closed at its yield and the finally clause runs
StreamDisconnect ==
    /\ stream.pc = "live"
    /\ stream' = [stream EXCEPT !.pc = "closed", !.registered = FALSE, !.left = <<>>]
    /\ resp' = NoResp
    /\ UNCHANGED <<phase, dbConfigured, db, jobs, tasks, nextId, nextTask, now, hout, scoring, pipeline, callbacks>>

\* job 2 of u1 was cancelled while its run was still queued and then resumed: the Job
\* that resume registered is pending and both run_scrape_job tasks are queued
InitStream ==
    LET d1 == DbCancelJob(DbCreateJob(EmptyDb, 2, "u1"), 2)
    IN  /\ dbConfigured = TRUE
        /\ jobs = (2 :> ResumedJob(d1, 2, 0, 2))
        /\ db = DbResetJobForResume(d1, 2)
        /\ tasks = {NewTask(1, 2, {}, NoStep),
                    NewTask(2, 2, DbJobPlaceIds(d1, 2), d1.jobs[2].checkpoint_step)}
        /\ nextId = 3
        /\ nextTask = 3
        /\ phase = "serving"
        /\ now = 0
        /\ resp = NoResp
        /\ hout = <<>>
        /\ scoring = NoScoring
        /\ stream = NoStream /\ pipeline = NoPipeline /\ callbacks = NoCallbacks

NextStream ==
    \/ \E t \in tasks : StartRun(t)
    \/ \E t \in tasks : RunPipelineSync(t)
    \/ \E t \in tasks : FinishRun(t)
    \/ \E u \in Users, j \in DOMAIN jobs : CancelRoute(u, j)
    \/ \E u \in Users, j \in JobIds, k \in {NoLastId, 0, 1} : StreamOpen(u, j, k)
    \/ StreamLive
    \/ StreamDisconnect

SpecStream == InitStream /\ [][NextStream]_vars

\* the same with the cleanup loop and the clock running
NextStreamSweep ==
    \/ NextStream
    \/ Sweep
    \/ Tick
SpecStreamSweep == InitStream /\ [][NextStreamSweep]_vars

(* ------------- requests on a job by its owner and by others ------------- *)
\* a run of a job of u1 that saves leads and ends, and every request on jobs made by u1,
\* by u2 and by dev-user
NextAccess ==
    \/ \E t \in tasks, lead \in LeadPool : t.calls < MaxAccessCalls /\ LeadCallback(t, lead)
    \/ \E t \in tasks : PipelineReturns(t)
    \/ \E t \in tasks : FinishRun(t)
    \/ \E u \in Callers, j \in JobIds : GetJobStatus(u, j)
    \/ \E u \in Callers, j \in JobIds : GetJobLeads(u, j)
    \/ \E u \in Callers, j \in JobIds : ExportJobLeads(u, j)
    \/ \E u \in Callers, j \in JobIds : CancelRoute(u, j)
    \/ \E u \in Callers, j \in JobIds : ResumeRoute(u, j)
    \/ \E u \in Callers, j \in JobIds : DeleteJob(u, j)
    \/ \E u \in Callers, j \in JobIds : StreamOpen(u, j, NoLastId)
    \/ StreamDisconnect
    \/ \E u \in Callers : ListJobs(u)
SpecAccess == InitRun /\ [][NextAccess]_vars

(* ------------------- a client reconnecting to a job ------------------- *)
InitReplay ==
    /\ InitNewRun(FALSE, EmptyDb)
    /\ phase = "serving"
    /\ nextTask = 2
    /\ now = 0
    /\ resp = NoResp
    /\ hout = <<>>
    /\ scoring = NoScoring
    /\ stream = NoStream /\ pipeline = NoPipeline /\ callbacks = NoCallbacks

NextReplay ==
    \/ \E j \in DOMAIN jobs : EmitProgress(j, "Scraping Google Maps")
    \/ \E u \in Users, j \in JobIds, k \in {NoLastId} \cup 0..MaxAppend : EventGenerator(u, j, k)

SpecReplay == InitReplay /\ [][NextReplay]_vars

(* ------------------------- scoring one lead --------------------------- *)
\* LeadScorer.score on the lead it is given
Score ==
    /\ scoring.scored.tier = "none"
    /\ scoring' = [scoring EXCEPT !.scored = ScoredLead(scoring.lead)]
    /\ UNCHANGED <<phase, dbConfigured, db, jobs, tasks, nextId, nextTask, now, resp, hout, stream, pipeline, callbacks>>

InitScore ==
    /\ \E lead \in EnrichedLeads : scoring = [lead |-> lead, scored |-> NoScored]
    /\ phase = "serving"
    /\ dbConfigured = FALSE
    /\ db = EmptyDb
    /\ jobs = <<>>
    /\ tasks = {}
    /\ nextId = 2
    /\ nextTask = 1
    /\ now = 0
    /\ resp = NoResp
    /\ hout = <<>>
    /\ stream = NoStream /\ pipeline = NoPipeline /\ callbacks = NoCallbacks

NextScore == Score

SpecScore == InitScore /\ [][NextScore]_vars

(* ---------------------------- Pipeline.run ---------------------------- *)
\* the place ids maps_scraper.scrape can return, at most MaxRaw of them per query
PipePlaces == {"p1", "p2"}
RawLists == UNION {[1..n -> PipePlaces] : n \in 0..MaxRaw}
\* the totals LeadScorer.score gives here, one on each side of settings.min_score_for_outreach
PipeTotals == {40, 80}
min_score_for_outreach == 50
StageOrder == <<"Scraping Google Maps", "Enriching leads", "Scoring leads", "Generating outreach">>
\* PipelineResult(query=query)
NoResult == [total_scraped |-> 0, total_enriched |-> 0, total_scored |-> 0,
             total_qualified |-> 0, total_with_outreach |-> 0, leads |-> <<>>,
             completed |-> FALSE]
\* Pipeline(skip_enrichment, skip_outreach, progress_callback, lead_callback) before run
NewPipeline(skip_enrichment, skip_outreach) ==
    [pc |-> "start", skip_enrichment |-> skip_enrichment, skip_outreach |-> skip_outreach,
     raw |-> <<>>, enriched |-> <<>>, scored |-> <<>>, qualified |-> <<>>, final |-> <<>>,
     generated |-> <<>>, steps |-> <<>>, called |-> <<>>, result |-> NoResult,
     closed |-> FALSE]
\* _progress(step, current, total): the call progress_callback receives
ProgressCall(step, current, total) == [step |-> step, current |-> current, total |-> total]
\* the except/finally of run when a stage or progress_callback raises
PipelineRaised(p) == [p EXCEPT !.pc = "raised", !.closed = TRUE]
\* _minimal_enrichment(raw_lead) and the outcome of _enrich_single(raw_lead)
EnrichedLead(raw, minimal) == [raw |-> raw, minimal |-> minimal]
\* LeadScorer.score(lead)
PipeScored(lead, total) == [lead |-> lead, total |-> total]
\* FinalLead(scored_lead=lead), with the outreach generate made or the empty default
FinalLead(scored_lead, outreach) == [scored_lead |-> scored_lead, outreach |-> outreach]
\* where run goes after the scrape stage
MutAfterScrapeNoReturn(raw, skip_enrichment) == IF skip_enrichment \/ raw = <<>> THEN "score" ELSE "enrich"
AfterScrape(raw, skip_enrichment) ==
    IF raw = <<>> THEN "returned" ELSE IF skip_enrichment THEN "score" ELSE "enrich"

\* run, step 1: maps_scraper.scrape and its progress call; returns at once on no leads
PipelineScrape ==
    /\ pipeline.pc = "start"
    /\ \E raw \in RawLists, raises \in BOOLEAN :
          LET n == Len(raw)
              called == [pipeline EXCEPT
                            !.raw = raw,
                            !.result = [@ EXCEPT !.total_scraped = n],
                            !.steps = Append(@, ProgressCall("Scraping Google Maps", n, n))]
              to == AfterScrape(raw, pipeline.skip_enrichment)
          IN  pipeline' =
                 IF raises THEN PipelineRaised(called)
                 ELSE IF to = "returned" THEN [called EXCEPT !.pc = "returned", !.closed = TRUE]
                 ELSE IF to = "score"
                 THEN [called EXCEPT
                          !.pc = "score",
                          !.enriched = [i \in 1..n |-> EnrichedLead(raw[i], TRUE)],
                          !.result = [@ EXCEPT !.total_enriched = n]]
                 ELSE [called EXCEPT !.pc = "enrich"]
    /\ UNCHANGED <<phase, dbConfigured, db, jobs, tasks, nextId, nextTask, now, resp, hout, scoring, stream, callbacks>>
\* maps_scraper.scrape raises
PipelineScrapeRaises ==
    /\ pipeline.pc = "start"
    /\ pipeline' = PipelineRaised(pipeline)
    /\ UNCHANGED <<phase, dbConfigured, db, jobs, tasks, nextId, nextTask, now, resp, hout, scoring, stream, callbacks>>
\* _enrich_leads, one turn of its loop: progress call, then _enrich_single or, when that
\* raises, _minimal_enrichment
PipelineEnrichOne ==
    /\ pipeline.pc = "enrich"
    /\ \E raises \in BOOLEAN, failed \in BOOLEAN :
          LET n == Len(pipeline.raw)
              i == Len(pipeline.enriched) + 1
              called == [pipeline EXCEPT !.steps = Append(@, ProgressCall("Enriching leads", i, n))]
          IN  pipeline' =
                 IF raises THEN PipelineRaised(called)
                 ELSE [called EXCEPT
                          !.enriched = Append(@, EnrichedLead(pipeline.raw[i], failed)),
                          !.pc = IF i = n THEN "score" ELSE "enrich",
                          !.result = [@ EXCEPT !.total_enriched = IF i = n THEN n ELSE @]]
    /\ UNCHANGED <<phase, dbConfigured, db, jobs, tasks, nextId, nextTask, now, resp, hout, scoring, stream, callbacks>>
\* the leads generate was not asked for: FinalLead(scored_lead=lead) and lead_callback each
PlainFinal(qualified) == [i \in 1..Len(qualified) |-> FinalLead(qualified[i], FALSE)]
\* run, steps 3 and 4: score_batch, filter_by_min_score, the progress call, and, when
\* outreach is skipped or nothing qualified, the final leads without outreach
PipelineScore ==
    /\ pipeline.pc = "score"
    /\ \E totals \in [1..Len(pipeline.enriched) -> PipeTotals], raises \in BOOLEAN :
          LET scored == [i \in 1..Len(pipeline.enriched) |-> PipeScored(pipeline.enriched[i], totals[i])]
              qualified == SelectSeq(scored, LAMBDA x : x.total >= min_score_for_outreach)
              called == [pipeline EXCEPT
                            !.scored = scored,
                            !.qualified = qualified,
                            !.result = [@ EXCEPT !.total_scored = Len(scored),
                                                 !.total_qualified = Len(qualified)],
                            !.steps = Append(@, ProgressCall("Scoring leads", Len(qualified), Len(scored)))]
          IN  pipeline' =
                 IF raises THEN PipelineRaised(called)
                 ELSE IF ~pipeline.skip_outreach /\ qualified # <<>>
                 THEN [called EXCEPT !.pc = "outreach"]
                 ELSE [called EXCEPT
                          !.pc = "returned",
                          !.closed = TRUE,
                          !.final = PlainFinal(qualified),
                          !.called = PlainFinal(qualified),
                          !.result = [@ EXCEPT !.leads = PlainFinal(qualified), !.completed = TRUE]]
    /\ UNCHANGED <<phase, dbConfigured, db, jobs, tasks, nextId, nextTask, now, resp, hout, scoring, stream, callbacks>>
\* the FinalLead one turn of the loop of _generate_outreach appends for a lead
MutOutreachFor(lead, ok) == IF ok THEN <<FinalLead(lead, TRUE)>> ELSE <<>>
OutreachFor(lead, ok) == <<FinalLead(lead, ok)>>
\* _generate_outreach, one turn of its loop: progress call, generate, lead_callback; when
\* generate raises, the FinalLead without outreach and lead_callback; after the last
\* turn run stores the list and returns
PipelineOutreachOne ==
    /\ pipeline.pc = "outreach"
    /\ \E raises \in BOOLEAN, ok \in BOOLEAN :
          LET n == Len(pipeline.qualified)
              i == Len(pipeline.generated) + 1
              called == [pipeline EXCEPT !.steps = Append(@, ProgressCall("Generating outreach", i, n))]
              final == pipeline.final \o OutreachFor(pipeline.qualified[i], ok)
          IN  pipeline' =
                 IF raises THEN PipelineRaised(called)
                 ELSE [called EXCEPT
                          !.generated = Append(@, ok),
                          !.final = final,
                          !.called = @ \o OutreachFor(pipeline.qualified[i], ok),
                          !.pc = IF i = n THEN "returned" ELSE "outreach",
                          !.closed = (i = n),
                          !.result = IF i = n
                                     THEN [@ EXCEPT !.total_with_outreach = Len(final),
                                                    !.leads = final, !.completed = TRUE]
                                     ELSE @]
    /\ UNCHANGED <<phase, dbConfigured, db, jobs, tasks, nextId, nextTask, now, resp, hout, scoring, stream, callbacks>>

InitPipeline ==
    /\ \E skip_enrichment \in BOOLEAN, skip_outreach \in BOOLEAN :
          pipeline = NewPipeline(skip_enrichment, skip_outreach)
    /\ phase = "serving"
    /\ dbConfigured = FALSE
    /\ db = EmptyDb
    /\ jobs = <<>>
    /\ tasks = {}
    /\ nextId = 2
    /\ nextTask = 1
    /\ now = 0
    /\ resp = NoResp
    /\ hout = <<>>
    /\ scoring = NoScoring
    /\ stream = NoStream
    /\ callbacks = NoCallbacks

NextPipeline ==
    \/ PipelineScrape
    \/ PipelineScrapeRaises
    \/ PipelineEnrichOne
    \/ PipelineScore
    \/ PipelineOutreachOne

SpecPipeline == InitPipeline /\ [][NextPipeline]_vars

(* ---------------------- _db_lead_to_scored_lead ------------------------ *)
\* the values of the score column: to_flat_dict stores round(score, 1), between 0 and 100
StoredScores == 0..(100 * 10)
\* component_score = total_score * 1.25 / 5 in thousandths of a point, from the stored
\* score in tenths; the quotients are exact for every stored score
MutComponentScoreOfFour(score_tenths) == (((score_tenths * 100) * 125) \div 100) \div 4
ComponentScore(score_tenths) == (((score_tenths * 100) * 125) \div 100) \div 5
\* LeadScore(rating_score=component_score, ...); each field is validated ge=0, le=25
ComponentValid(c) == 0 <= c /\ c <= 25 * 1000
RebuiltScore(score_tenths) ==
    LET c == ComponentScore(score_tenths)
    IN  [rating_score |-> c, review_score |-> c, completeness_score |-> c,
         social_presence_score |-> c, business_signals_score |-> c]
\* LeadScore.total in thousandths of a point: min(raw_total * 100 / 125, 100.0)
TotalThousandths(score) == Min((RawTotal(score) * 100) \div 125, 100 * 1000)
\* LeadScore.tier
RebuiltTier(score) ==
    IF TotalThousandths(score) >= 75 * 1000 THEN "hot"
    ELSE IF TotalThousandths(score) >= 50 * 1000 THEN "warm"
    ELSE "cold"
\* _db_lead_to_scored_lead(db_lead, query), with total_score and tier read off the result;
\* "raised" when LeadScore(...) rejects a component
DbLeadToScoredLead(db_lead) ==
    LET score == RebuiltScore(db_lead.score)
    IN  IF ComponentValid(ComponentScore(db_lead.score))
        THEN [lead |-> db_lead, score |-> score, total_thousandths |-> TotalThousandths(score),
              tier |-> RebuiltTier(score)]
        ELSE [lead |-> db_lead, score |-> score, total_thousandths |-> -1, tier |-> "raised"]
Rebuild ==
    /\ scoring.scored.tier = "none"
    /\ scoring' = [scoring EXCEPT !.scored = DbLeadToScoredLead(scoring.lead)]
    /\ UNCHANGED <<phase, dbConfigured, db, jobs, tasks, nextId, nextTask, now, resp, hout, stream, pipeline, callbacks>>

InitRebuild ==
    /\ \E t \in StoredScores : scoring = [lead |-> [score |-> t], scored |-> NoScored]
    /\ phase = "serving"
    /\ dbConfigured = TRUE
    /\ db = EmptyDb
    /\ jobs = <<>>
    /\ tasks = {}
    /\ nextId = 2
    /\ nextTask = 1
    /\ now = 0
    /\ resp = NoResp
    /\ hout = <<>>
    /\ stream = NoStream
    /\ pipeline = NoPipeline /\ callbacks = NoCallbacks

NextRebuild == Rebuild

SpecRebuild == InitRebuild /\ [][NextRebuild]_vars

(* --------------------- LeadScorer with thresholds --------------------- *)
\* settings.hot_lead_threshold and settings.warm_lead_threshold
hot_lead_threshold == 75
warm_lead_threshold == 50
\* the constructor arguments tried: None (NoThreshold) or a number of points
NoThreshold == 0
HotThresholds == {NoThreshold, 60, 75, 90}
WarmThresholds == {NoThreshold, 40, 50}
\* LeadScorer.__init__: hot_threshold or settings.hot_lead_threshold, and the same for warm
LeadScorerInit(hot_threshold, warm_threshold) ==
    [hot_threshold |-> IF hot_threshold # NoThreshold THEN hot_threshold ELSE hot_lead_threshold,
     warm_threshold |-> IF warm_threshold # NoThreshold THEN warm_threshold ELSE warm_lead_threshold]
\* the leads scored with thresholds: totals from 16.8 to 91.2
ScorerLeads ==
    [rating : Ratings, review_count : ReviewCounts, phone : {TRUE},
     website : {"https://shop.example"}, email : BOOLEAN, owner_name : {TRUE},
     social_links : SocialSets, photos_count : {0}, business_hours : {FALSE},
     price_level : {FALSE}, is_claimed : BOOLEAN, website_reachable : {TRUE},
     has_contact_form : {FALSE}, team_members : BOOLEAN]

\* a LeadScorer constructed with thresholds and the lead its score method is given
InitScorer ==
    /\ \E lead \in ScorerLeads, h \in HotThresholds, w \in WarmThresholds :
          scoring = [lead |-> lead, scored |-> NoScored, scorer |-> LeadScorerInit(h, w)]
    /\ phase = "serving"
    /\ dbConfigured = FALSE
    /\ db = EmptyDb
    /\ jobs = <<>>
    /\ tasks = {}
    /\ nextId = 2
    /\ nextTask = 1
    /\ now = 0
    /\ resp = NoResp
    /\ hout = <<>>
    /\ stream = NoStream /\ pipeline = NoPipeline /\ callbacks = NoCallbacks

SpecScorer == InitScorer /\ [][NextScore]_vars

(* -------------------------- _notify_callbacks ------------------------- *)
\* a subscriber callback: whether calling it raises, and the events it has been called with
NewCallback(raises) == [raises |-> raises, got |-> <<>>]
CallbacksOf(C, jid) == IF jid \in DOMAIN C THEN C[jid] ELSE <<>>
\* JobManager.register_callback
RegisterCallback(jid, raises) ==
    /\ phase = "serving"
    /\ Len(CallbacksOf(callbacks, jid)) < MaxCallbacks
    /\ callbacks' = [j \in DOMAIN callbacks \cup {jid} |->
                        IF j = jid THEN Append(CallbacksOf(callbacks, jid), NewCallback(raises))
                        ELSE callbacks[j]]
    /\ resp' = NoResp
    /\ UNCHANGED <<phase, dbConfigured, db, jobs, tasks, nextId, nextTask, now, hout, scoring, stream, pipeline>>
\* the try/except around callback(event): whether what the callback raises leaves it
MutEscapesTry(raises) == raises
EscapesTry(raises) == FALSE
\* the loop of _notify_callbacks from the i-th callback on: the callbacks as they are
\* left, and whether an exception left the loop
RECURSIVE NotifyLoop(_, _, _)
NotifyLoop(cbs, i, event) ==
    IF i > Len(cbs) THEN [cbs |-> cbs, raised |-> FALSE]
    ELSE LET called == [cbs EXCEPT ![i].got = Append(@, event)]
         IN  IF EscapesTry(cbs[i].raises) THEN [cbs |-> called, raised |-> TRUE]
             ELSE NotifyLoop(called, i + 1, event)
NotifyCallbacks(C, jid, event) == NotifyLoop(CallbacksOf(C, jid), 1, event)
\* a JobManager call that emits an event, from its add_event on: J is the job map the
\* call has made, d the store after its mirrored write, which follows the notification
Notified(op, jid, J, d) ==
    LET r == NotifyCallbacks(callbacks, jid, J[jid].event_buffer[Len(J[jid].event_buffer)])
    IN  /\ jobs' = J
        /\ callbacks' = IF jid \in DOMAIN callbacks THEN [callbacks EXCEPT ![jid] = r.cbs]
                        ELSE callbacks
        /\ db' = IF r.raised THEN db ELSE d
        /\ resp' = Resp(op, IF r.raised THEN "raised" ELSE "returned")
\* JobManager.update_progress, add_lead (when it accepts the lead) and fail_job, each on
\* a job in memory that has emitted fewer than MaxNotified events
NotifiedUpdateProgress(jid, step) ==
    /\ jid \in DOMAIN jobs
    /\ jobs[jid].appended < MaxNotified
    /\ Notified("update_progress", jid, MemUpdateProgress(jobs, jid, step), db)
    /\ UNCHANGED <<phase, dbConfigured, tasks, nextId, nextTask, now, hout, scoring, stream, pipeline>>
NotifiedAddLead(jid, lead) ==
    /\ jid \in DOMAIN jobs
    /\ jobs[jid].appended < MaxNotified
    /\ \E r \in AddLead(jobs, db, dbConfigured, jid, lead) :
          /\ r.added
          /\ Notified("add_lead", jid, r.jobs, r.db)
    /\ UNCHANGED <<phase, dbConfigured, tasks, nextId, nextTask, now, hout, scoring, stream, pipeline>>
NotifiedFailJob(jid, msg) ==
    /\ jid \in DOMAIN jobs
    /\ jobs[jid].appended < MaxNotified
    /\ Notified("fail_job", jid, MemFailJob(jobs, jid, msg, now), DbFailJob(db, dbConfigured, jobs, jid, msg))
    /\ UNCHANGED <<phase, dbConfigured, tasks, nextId, nextTask, now, hout, scoring, stream, pipeline>>

NextNotify ==
    \/ \E jid \in DOMAIN jobs, raises \in BOOLEAN : RegisterCallback(jid, raises)
    \/ \E jid \in DOMAIN jobs, step \in {"Enriching leads"} : NotifiedUpdateProgress(jid, step)
    \/ \E jid \in DOMAIN jobs, lead \in LeadPool : NotifiedAddLead(jid, lead)
    \/ \E jid \in DOMAIN jobs : NotifiedFailJob(jid, TimeoutMsg)

SpecNotify == InitRun /\ [][NextNotify]_vars

(* ------------- add_lead on two worker threads of one user ------------- *)
\* u1 has two running jobs, 1 and 2 (max_jobs_per_user above 1, or a job that went back
\* to running beside a resumed one); both runs have reached their callbacks, each on a
\* worker of _executor; pending is the lead a thread is inside add_lead with, between
\* the answer of check_lead_exists and job.leads.append
InitConcurrentAdd ==
    LET created == [j \in {1, 2} |-> NewJob("u1", 0, NoCheckpoint, {}, NoStep, 1)]
        stored == DbCreateJob(DbCreateJob(EmptyDb, 1, "u1"), 2, "u1")
        started == MemUpdateStatus(MemUpdateStatus(created, 1, "running", 0), 2, "running", 0)
        d == DbUpdateStatus(DbUpdateStatus(stored, TRUE, created, 1, "running"),
                            TRUE, created, 2, "running")
    IN  /\ dbConfigured = TRUE
        /\ jobs = started
        /\ db = d
        /\ tasks = {[NewTask(j, j, {}, NoStep) EXCEPT !.pc = "in_pipeline", !.mode = "new"]
                       @@ [pending |-> NoLead] : j \in {1, 2}}
        /\ nextId = 3
        /\ phase = "serving"
        /\ nextTask = 3
        /\ now = 0
        /\ resp = NoResp
        /\ hout = <<>>
        /\ scoring = NoScoring
        /\ stream = NoStream /\ pipeline = NoPipeline /\ callbacks = NoCallbacks
\* whether add_lead gets past its two duplicate checks with this lead
AddLeadPasses(t, lead) ==
    /\ lead.place_id \notin t.skip
    /\ \E r \in AddLead(jobs, db, dbConfigured, t.jid, lead) : r.added
\* lead_callback up to the answer of check_lead_exists (a request to the store, during
\* which the other worker runs): a rejected lead is dealt with at once
AddLeadCheck(t, lead) ==
    /\ t \in tasks
    /\ t.pc = "in_pipeline"
    /\ t.calls < MaxCalls
    /\ t.pending = NoLead
    /\ IF AddLeadPasses(t, lead)
       THEN /\ tasks' = (tasks \ {t}) \cup {[t EXCEPT !.pending = lead]}
            /\ resp' = NoResp
            /\ UNCHANGED <<phase, dbConfigured, db, jobs, nextId, nextTask, now, hout, scoring, stream, pipeline, callbacks>>
       ELSE LeadCallback(t, lead)
\* the rest of add_lead and of lead_callback: append, event, store insert, saved_place_ids
AddLeadInsert(t) ==
    /\ t \in tasks
    /\ t.pending # NoLead
    /\ LET r == AddLeadAccepted(jobs, db, dbConfigured, t.jid, t.pending)
       IN  /\ jobs' = r.jobs
           /\ db' = r.db
    /\ tasks' = (tasks \ {t}) \cup
          {[t EXCEPT !.pending = NoLead, !.calls = @ + 1, !.saved = @ \cup {t.pending.place_id}]}
    /\ resp' = NoResp
    /\ UNCHANGED <<phase, dbConfigured, nextId, nextTask, now, hout, scoring, stream, pipeline, callbacks>>

NextConcurrentAdd ==
    \/ \E t \in tasks, lead \in LeadPool : AddLeadCheck(t, lead)
    \/ \E t \in tasks : AddLeadInsert(t)

SpecConcurrentAdd == InitConcurrentAdd /\ [][NextConcurrentAdd]_vars

(* ------ event_generator step by step, beside the worker's events ------ *)
\* the coroutine with its replay loop in progress: idx is the index enumerate() gives
\* next, iter the list object the loop iterates (the job's event_buffer until add_event
\* rebinds that attribute to a slice, own says it has), queue is event_queue, start the
\* number of events the job had emitted when the replay began, from that number when
\* on_event was registered, at_end that number when the replay loop ended; inflight is
\* the event the worker thread has appended and not yet passed to _notify_callbacks
NoSubscriber ==
    NoStream @@ [idx |-> 0, own |-> FALSE, iter |-> <<>>, queue |-> <<>>, start |-> 0,
                 at_end |-> 0, inflight |-> <<>>]
\* the buffer is empty or two short of max_buffer_size when the subscriber may connect
SubscriberPrefill == max_buffer_size - 2
EmittedSince(job) ==
    IF job.appended >= SubscriberPrefill THEN job.appended - SubscriberPrefill ELSE job.appended
MaxLive == MaxAppend - SubscriberPrefill
\* the job after n calls of update_progress
Prefilled(J, n) ==
    [J EXCEPT ![2].event_buffer =
                  [i \in 1..n |-> MkEvent("status", "Scraping Google Maps", "", FALSE, NoLead, i - 1)],
              ![2].appended = n]

InitSubscriber ==
    /\ \E n \in {0, SubscriberPrefill} :
          jobs = Prefilled(MemUpdateStatus((2 :> NewJob("u1", 0, NoCheckpoint, {}, NoStep, 1)),
                                           2, "running", 0), n)
    /\ dbConfigured = FALSE
    /\ db = EmptyDb
    /\ tasks = {[NewTask(1, 2, {}, NoStep) EXCEPT !.pc = "in_pipeline", !.mode = "new"]}
    /\ nextId = 3
    /\ phase = "serving"
    /\ nextTask = 2
    /\ now = 0
    /\ resp = NoResp
    /\ hout = <<>>
    /\ scoring = NoScoring
    /\ stream = NoSubscriber /\ pipeline = NoPipeline /\ callbacks = NoCallbacks

\* stream.py 39-51 for the owner without Last-Event-ID: start_from is 0
SubscriberOpen(jid) ==
    /\ stream.pc = "none"
    /\ jid \in DOMAIN jobs
    /\ stream' = [stream EXCEPT !.pc = "replay", !.jid = jid, !.start = jobs[jid].appended]
    /\ hout' = <<>>
    /\ resp' = NoResp
    /\ UNCHANGED <<phase, dbConfigured, db, jobs, tasks, nextId, nextTask, now, scoring, pipeline, callbacks>>

\* the list the replay loop iterates
ReplayList(st) == IF st.own THEN st.iter ELSE jobs[st.jid].event_buffer
\* one turn of "for i, event in enumerate(job.event_buffer)": the frame under i and the
\* suspension at its yield, or the end of the loop when i has reached the list's length
SubscriberReplayStep ==
    /\ stream.pc = "replay"
    /\ LET list == ReplayList(stream)
       IN  IF stream.idx < Len(list)
           THEN /\ hout' = Append(hout, Frame(stream.idx, list[stream.idx + 1]))
                /\ stream' = [stream EXCEPT !.idx = @ + 1, !.event_id = stream.idx,
                                            !.replayed = @ + 1]
           ELSE /\ hout' = hout
                /\ stream' = [stream EXCEPT !.pc = "replayed", !.own = FALSE, !.iter = <<>>,
                                            !.at_end = jobs[stream.jid].appended]
    /\ resp' = NoResp
    /\ UNCHANGED <<phase, dbConfigured, db, jobs, tasks, nextId, nextTask, now, scoring, pipeline, callbacks>>

\* stream.py 59-71: the return for a finished job, else register_callback(job_id, on_event)
SubscriberRegister ==
    /\ stream.pc = "replayed"
    /\ stream' = IF jobs[stream.jid].status \in Terminal
                 THEN [stream EXCEPT !.pc = "closed"]
                 ELSE [stream EXCEPT !.pc = "live", !.registered = TRUE,
                                     !.from = jobs[stream.jid].appended]
    /\ resp' = NoResp
    /\ UNCHANGED <<phase, dbConfigured, db, jobs, tasks, nextId, nextTask, now, hout, scoring, pipeline, callbacks>>

\* one turn of the live loop with an event in event_queue
SubscriberLive ==
    /\ stream.pc = "live"
    /\ stream.queue # <<>>
    /\ LET event == Head(stream.queue)
       IN  /\ hout' = Append(hout, Frame(stream.event_id + 1, event))
           /\ stream' = IF IsTerminalEvent(event)
                        THEN [stream EXCEPT !.event_id = @ + 1, !.taken = @ + 1,
                                            !.pc = "closed", !.registered = FALSE,
                                            !.queue = Tail(@)]
                        ELSE [stream EXCEPT !.event_id = @ + 1, !.taken = @ + 1,
                                            !.queue = Tail(@)]
    /\ resp' = NoResp
    /\ UNCHANGED <<phase, dbConfigured, db, jobs, tasks, nextId, nextTask, now, scoring, pipeline, callbacks>>

\* the worker thread in update_progress or fail_job, up to and including job.add_event:
\* when add_event slices, the list a replay loop is iterating stays the old object, with
\* the event appended to it
WorkerAddEvent(jid, fails) ==
    /\ jid \in DOMAIN jobs
    /\ jobs[jid].status \in Active
    /\ stream.inflight = <<>>
    /\ EmittedSince(jobs[jid]) < MaxLive
    /\ jobs' = IF fails THEN MemFailJob(jobs, jid, TimeoutMsg, now)
               ELSE MemUpdateProgress(jobs, jid, "Enriching leads")
    /\ LET old == jobs[jid].event_buffer
           new == jobs'[jid].event_buffer
           event == new[Len(new)]
           sliced == Len(old) + 1 > max_buffer_size
       IN  stream' = IF stream.pc = "replay" /\ stream.jid = jid /\ ~stream.own /\ sliced
                     THEN [stream EXCEPT !.inflight = <<event>>, !.own = TRUE,
                                         !.iter = Append(old, event)]
                     ELSE [stream EXCEPT !.inflight = <<event>>]
    /\ resp' = NoResp
    /\ UNCHANGED <<phase, dbConfigured, db, tasks, nextId, nextTask, now, hout, scoring, pipeline, callbacks>>

\* the worker thread's _notify_callbacks for that event: on_event puts it on the queue
\* if it is registered by now
WorkerNotify ==
    /\ stream.inflight # <<>>
    /\ stream' = IF stream.registered
                 THEN [stream EXCEPT !.inflight = <<>>, !.queue = Append(@, stream.inflight[1])]
                 ELSE [stream EXCEPT !.inflight = <<>>]
    /\ resp' = NoResp
    /\ UNCHANGED <<phase, dbConfigured, db, jobs, tasks, nextId, nextTask, now, hout, scoring, pipeline, callbacks>>

NextSubscriber ==
    \/ \E j \in DOMAIN jobs : SubscriberOpen(j)
    \/ SubscriberReplayStep
    \/ SubscriberRegister
    \/ SubscriberLive
    \/ \E j \in DOMAIN jobs, fails \in BOOLEAN : WorkerAddEvent(j, fails)
    \/ WorkerNotify

SpecSubscriber == InitSubscriber /\ [][NextSubscriber]_vars

(* ------- a subscriber that stays connected while the run ends --------- *)
\* pipeline.run raises on the worker thread: _run_pipeline_sync lets the exception
\* through and "await loop.run_in_executor" re-raises it in run_scrape_job
PipelineRaises(t, msg) ==
    /\ t \in tasks
    /\ t.pc = "in_pipeline"
    /\ tasks' = (tasks \ {t}) \cup {[t EXCEPT !.pc = "returned", !.exc = msg]}
    /\ resp' = NoResp
    /\ UNCHANGED <<phase, dbConfigured, db, jobs, nextId, nextTask, now, hout, scoring, stream, pipeline, callbacks>>

\* the live loop with an empty queue sends ": keep-alive" every 15 s, which changes
\* nothing of the state: it is the stuttering step
NextStreamFair ==
    \/ \E t \in tasks : ProgressCallback(t, "Enriching leads", 1)
    \/ \E t \in tasks, lead \in LeadPool : LeadCallback(t, lead)
    \/ \E t \in tasks : PipelineReturns(t)
    \/ \E t \in tasks : PipelineRaises(t, ScrapeErrorMsg)
    \/ \E t \in tasks : FinishRun(t)
    \/ \E u \in Users, j \in DOMAIN jobs : CancelRoute(u, j)
    \/ \E j \in DOMAIN jobs : StreamOpen(jobs[j].user_id, j, NoLastId)
    \/ StreamLive

\* the client never goes away; the event loop runs the generator whenever its queue has
\* an event, the worker thread's pipeline run ends and run_scrape_job resumes after it
SpecStreamFair ==
    /\ InitReplay
    /\ [][NextStreamFair]_vars
    /\ WF_vars(StreamLive)
    /\ WF_vars(\E t \in tasks : PipelineReturns(t) \/ PipelineRaises(t, ScrapeErrorMsg))
    /\ WF_vars(\E t \in tasks : FinishRun(t))

(* ------------- a run that ends with an exception of any text ------------- *)
PipelineErrorMsgs == {ScrapeErrorMsg, RequestCancelledMsg}
NextRunRaises ==
    \/ \E t \in tasks, step \in {"Enriching leads"}, current \in Currents :
          ProgressCallback(t, step, current)
    \/ \E t \in tasks, lead \in LeadPool : LeadCallback(t, lead)
    \/ \E t \in tasks : PipelineReturns(t)
    \/ \E t \in tasks, msg \in PipelineErrorMsgs : PipelineRaises(t, msg)
    \/ \E t \in tasks : FinishRun(t)
    \/ \E u \in Users, j \in DOMAIN jobs : CancelRoute(u, j)

SpecRunRaises == InitRun /\ [][NextRunRaises]_vars

(* ------------------------------ claims -------------------------------- *)
LastEvent(job) == job.event_buffer[Len(job.event_buffer)]

\* C1: the in-memory status of a job only changes pending -> running, running ->
\* completed, running -> failed, pending -> failed, pending -> cancelled, running ->
\* cancelled, and, when resume registers a fresh Job, failed -> pending and cancelled ->
\* pending; in particular never cancelled -> running or cancelled -> failed
C1_RunTransitions ==
    {<<"pending", "running">>, <<"running", "completed">>, <<"running", "failed">>,
     <<"pending", "failed">>, <<"pending", "cancelled">>, <<"running", "cancelled">>}
C1_ResumeTransitions == {<<"failed", "pending">>, <<"cancelled", "pending">>}
C1_LegalTransitions ==
    [][\A j \in DOMAIN jobs \cap DOMAIN jobs' :
          jobs'[j].status # jobs[j].status =>
             \/ <<jobs[j].status, jobs'[j].status>> \in C1_RunTransitions
             \/ /\ <<jobs[j].status, jobs'[j].status>> \in C1_ResumeTransitions
                /\ jobs'[j].gen # jobs[j].gen]_vars

\* C2: a reconnect with last_event_id = k >= 0 is sent exactly the buffered events that
\* were emitted after event k, in order, each under its own sequence number; this
\* includes k = 0 and buffers that have dropped their oldest events
C2_Later(buffer, k) == SelectSeq(buffer, LAMBDA e : e.seq > k)
C2_Expected(buffer, k) ==
    [i \in 1..Len(C2_Later(buffer, k)) |-> Frame(C2_Later(buffer, k)[i].seq, C2_Later(buffer, k)[i])]
C2_ReplayExact ==
    [][\A u \in Users, j \in DOMAIN jobs, k \in 0..MaxAppend :
          (EventGenerator(u, j, k) /\ jobs[j].user_id = u) =>
             hout' = C2_Expected(jobs[j].event_buffer, k)]_vars

\* C3: no two leads of a job have the same place_id, whatever the lead callbacks do
C3_UniquePlaceIds ==
    \A j \in DOMAIN jobs :
       \A a, b \in 1..Len(jobs[j].leads) :
          a # b => jobs[j].leads[a].place_id # jobs[j].leads[b].place_id
C3_Witness ==
    \E j \in DOMAIN jobs, t \in tasks :
       /\ t.jid = j /\ t.dup_count >= 1 /\ j \in t.dup_jobs
       /\ Len(jobs[j].leads) = 2
       /\ \E i \in 1..Len(jobs[j].event_buffer) : jobs[j].event_buffer[i].type = "lead_update"

\* C4: when add_lead rejects a lead because check_lead_exists returns a lead of another
\* job of the same user, the job's leads and events stay as they were, the run's
\* duplicates counter grows by one and the other job's id joins its duplicate job ids;
\* these are never lost and are the duplicates_skipped and duplicate_jobs of the summary
C4_Found(t, lead) == CheckLeadExists(db, jobs[t.jid].user_id, lead.place_id, lead.phone)
C4_CrossJobRejected(t, lead) ==
    /\ lead.place_id \notin t.skip
    /\ t.jid \in DOMAIN jobs
    /\ \A i \in 1..Len(jobs[t.jid].leads) : jobs[t.jid].leads[i].place_id # lead.place_id
    /\ dbConfigured
    /\ C4_Found(t, lead) # {}
    /\ t.jid \notin C4_Found(t, lead)
C4_CrossJobDuplicate ==
    [][/\ \A t \in tasks, lead \in LeadPool :
             (LeadCallback(t, lead) /\ C4_CrossJobRejected(t, lead)) =>
                /\ jobs'[t.jid].leads = jobs[t.jid].leads
                /\ jobs'[t.jid].event_buffer = jobs[t.jid].event_buffer
                /\ jobs'[t.jid].appended = jobs[t.jid].appended
                /\ \E t2 \in tasks' : /\ t2.n = t.n
                                      /\ t2.dup_count = t.dup_count + 1
                                      /\ t2.dup_jobs \ t.dup_jobs \subseteq C4_Found(t, lead)
                                      /\ t2.dup_jobs \cap C4_Found(t, lead) # {}
       /\ \A t \in tasks, t2 \in tasks' :
             t2.n = t.n => t.dup_jobs \subseteq t2.dup_jobs /\ t.dup_count <= t2.dup_count
       /\ \A t \in tasks :
             (FinishRun(t) /\ t.exc = NoError /\ t.jid \in DOMAIN jobs) =>
                /\ jobs'[t.jid].summary.duplicate_jobs = t.dup_jobs
                /\ jobs'[t.jid].summary.duplicates_skipped = t.dup_count]_vars
C4_Witness ==
    \E j \in DOMAIN jobs :
       /\ jobs[j].status = "completed"
       /\ j # 1 /\ 1 \in jobs[j].summary.duplicate_jobs
       /\ jobs[j].summary.duplicates_skipped >= 1
       /\ Len(jobs[j].leads) >= 1

\* C5 as stated: start_scrape by a user at the per-user limit, or while the global limit
\* is reached, answers with the concurrency error, creates no Job and leaves the job map
\* and the store as they were
C5_AtLimit(u) ==
    \/ Cardinality({j \in DOMAIN jobs : jobs[j].user_id = u /\ jobs[j].status \in Active})
          >= max_jobs_per_user
    \/ Cardinality({j \in DOMAIN jobs : jobs[j].status \in Active}) >= max_concurrent_jobs
C5_NothingCreated == jobs' = jobs /\ db' = db /\ tasks' = tasks /\ nextId' = nextId
C5_RejectedWith429 ==
    [][\A u \in Users, banned \in BOOLEAN :
          (StartScrape(u, banned) /\ C5_AtLimit(u)) =>
             /\ resp'.code \in {"429_global", "429_user"}
             /\ C5_NothingCreated]_vars
\* C5 amended: the same, except that a banned caller gets the ban error (the ban check
\* comes first); nothing is created either way
C5_RejectedAtLimit ==
    [][\A u \in Users, banned \in BOOLEAN :
          (StartScrape(u, banned) /\ C5_AtLimit(u)) =>
             /\ resp'.op = "scrape"
             /\ IF dbConfigured /\ banned THEN resp'.code = "403_banned"
                ELSE resp'.code \in {"429_global", "429_user"}
             /\ C5_NothingCreated]_vars
C5_Witness ==
    /\ resp = Resp("scrape", "429_global")
    /\ Cardinality({j \in DOMAIN jobs : jobs[j].status \in Active}) >= max_concurrent_jobs

\* C6: a sweep fails every running job whose started_at is older than
\* job_timeout_minutes, with the timeout message and a non-recoverable error event, and
\* leaves every other job as it was (or drops it, when its TTL has expired); with the
\* sweep loop and the clock running, every running job the clock bound leaves room to
\* time out eventually leaves running
C6_Overdue(j) == jobs[j].status = "running" /\ jobs[j].started_at < now - job_timeout_minutes
C6_SweepStep ==
    \A j \in DOMAIN jobs :
       IF j \in DOMAIN jobs'
       THEN IF C6_Overdue(j)
            THEN /\ jobs'[j].status = "failed"
                 /\ jobs'[j].error = TimeoutMsg
                 /\ LastEvent(jobs'[j]).type = "error"
                 /\ LastEvent(jobs'[j]).message = TimeoutMsg
                 /\ LastEvent(jobs'[j]).recoverable = FALSE
                 /\ jobs'[j].appended = jobs[j].appended + 1
            ELSE jobs'[j] = jobs[j]
       ELSE jobs[j].created_at < now - job_ttl_hours
C6_Timeout ==
    /\ [][Sweep => C6_SweepStep]_vars
    /\ \A j \in JobIds :
          (j \in DOMAIN jobs /\ jobs[j].status = "running"
              /\ jobs[j].started_at + job_timeout_minutes < MaxTime)
          ~> (j \notin DOMAIN jobs \/ jobs[j].status # "running")
C6_Witness ==
    \E j \in DOMAIN jobs : jobs[j].status = "failed" /\ jobs[j].error = TimeoutMsg

\* C7: a cancel request on a pending or running job sets status cancelled and
\* cancel_requested and is answered as a success; on a completed, failed or cancelled
\* job, or an unknown id, it is refused and changes neither the job map (status,
\* completed_at, cancel_requested, event buffer) nor the store
C7_Cancel ==
    [][\A u \in Users, j \in JobIds :
          CancelRoute(u, j) =>
             IF j \in DOMAIN jobs /\ jobs[j].user_id = u /\ jobs[j].status \in {"pending", "running"}
             THEN /\ jobs'[j].status = "cancelled"
                  /\ jobs'[j].cancel_requested
                  /\ resp' = Resp("cancel", "200")
             ELSE /\ jobs' = jobs
                  /\ db' = db
                  /\ resp'.op = "cancel" /\ resp'.code # "200"]_vars
C7_Witness ==
    /\ resp = Resp("cancel", "400")
    /\ \E j \in DOMAIN jobs : jobs[j].status = "cancelled" /\ jobs[j].cancel_requested

\* C8: once a cancel has succeeded on a pending job, and until a resume replaces the Job,
\* the status is cancelled, every further cancel request is refused, and a resume
\* request by the owner is accepted
C8_CancelThenResume ==
    [][\A j \in DOMAIN jobs :
          jobs[j].cancelled_from = "pending" =>
             /\ jobs[j].status = "cancelled"
             /\ \A u \in Users : CancelRoute(u, j) => resp'.code # "200"
             /\ (dbConfigured /\ ResumeRoute(jobs[j].user_id, j)) => resp'.code = "200"]_vars

\* C9: a resume request succeeds only if the stored status is failed or cancelled, the
\* caller owns the job and the admission check passes; it then registers a Job with
\* status pending, cancel_requested false, no leads, no events, skip_place_ids = the
\* place ids of the stored leads, resume_step = the stored checkpoint step, and queues
\* the pipeline run for it
C9_Resume ==
    [][\A u \in Users, j \in JobIds :
          (ResumeRoute(u, j) /\ resp'.code = "200") =>
             /\ dbConfigured /\ j \in DOMAIN db.jobs
             /\ db.jobs[j].status \in {"failed", "cancelled"}
             /\ j \in DOMAIN jobs => jobs[j].status \in {"failed", "cancelled"}
             /\ db.jobs[j].user_id = u
             /\ Cardinality({i \in DOMAIN jobs : jobs[i].status \in Active}) < max_concurrent_jobs
             /\ Cardinality({i \in DOMAIN jobs : jobs[i].user_id = u /\ jobs[i].status \in Active})
                   < max_jobs_per_user
             /\ jobs'[j].status = "pending"
             /\ jobs'[j].cancel_requested = FALSE
             /\ jobs'[j].leads = <<>>
             /\ jobs'[j].event_buffer = <<>>
             /\ jobs'[j].skip_place_ids = {l.lead.place_id : l \in {x \in db.leads : x.job_id = j}}
             /\ jobs'[j].resume_step = db.jobs[j].checkpoint_step
             /\ \E t \in tasks' \ tasks : t.jid = j /\ t.pc = "queued"
                                          /\ t.skip = jobs'[j].skip_place_ids]_vars
C9_Witness ==
    /\ resp = Resp("resume", "200")
    /\ \E j \in DOMAIN jobs : /\ jobs[j].status = "pending"
                              /\ jobs[j].skip_place_ids = {"p1", "p2"}
                              /\ jobs[j].resume_step = "Generating outreach"

\* C10: the run of a job resumed at "Generating outreach" with N stored leads reloads N
\* scored leads and runs the pipeline on them (outreach only); so the run has loaded N
\* leads and its pipeline call has not raised
C10_OutreachOnly ==
    \A t \in tasks :
       (t.pc = "returned" /\ t.mode = "outreach") =>
          /\ t.loaded = Cardinality({x \in db.leads : x.job_id = t.jid})
          /\ t.exc = NoError

\* C11: the run of a new job that is still running and not cancelled when its pipeline
\* call is over ends with status completed and a summary whose total_leads is the number
\* of leads accepted into the job and whose hot + warm + cold is total_leads
C11_SummaryAdds(summary) == summary.hot + summary.warm + summary.cold = summary.total_leads
C11_NewJobCompletes ==
    [][\A t \in tasks :
          (/\ FinishRun(t)
           /\ t.mode = "new"
           /\ t.jid \in DOMAIN jobs
           /\ jobs[t.jid].status = "running"
           /\ ~jobs[t.jid].cancel_requested) =>
             /\ jobs'[t.jid].status = "completed"
             /\ jobs'[t.jid].summary.total_leads = Len(jobs[t.jid].leads)
             /\ C11_SummaryAdds(jobs'[t.jid].summary)]_vars

\* C12: once a Job object has a started_at, no step changes it; in particular
\* update_status(job, "running") on a job that has already been started keeps it
C12_StartedAtOnce ==
    [][\A j \in DOMAIN jobs \cap DOMAIN jobs' :
          (jobs'[j].gen = jobs[j].gen /\ jobs[j].started_at # NoTime) =>
             jobs'[j].started_at = jobs[j].started_at]_vars
\* a job that was started, cancelled at a later time and then set running again
C12_Witness ==
    \E j \in DOMAIN jobs :
       /\ jobs[j].status = "running"
       /\ jobs[j].cancel_requested
       /\ jobs[j].started_at # NoTime
       /\ jobs[j].started_at < jobs[j].completed_at

\* C13: for every lead LeadScorer scores, each of the five component scores is in
\* [0,25], their sum is at most 125, total = sum * 100 / 125 is in [0,100], and the tier
\* is hot iff total >= 75, warm iff 50 <= total < 75, cold otherwise
C13_Components(score) ==
    {score.rating_score, score.review_score, score.completeness_score,
     score.social_presence_score, score.business_signals_score}
C13_ScoreBounds ==
    scoring.scored.tier # "none" =>
       LET score == scoring.scored.score
           sum == score.rating_score + score.review_score + score.completeness_score
                     + score.social_presence_score + score.business_signals_score
           total_tenths == scoring.scored.total_tenths
       IN  /\ \A c \in C13_Components(score) : 0 <= c /\ c <= 25
           /\ sum <= 125
           /\ total_tenths * 125 = sum * 1000
           /\ 0 <= total_tenths /\ total_tenths <= 1000
           /\ scoring.scored.tier \in {"hot", "warm", "cold"}
           /\ scoring.scored.tier = "hot" <=> total_tenths >= 750
           /\ scoring.scored.tier = "warm" <=> (500 <= total_tenths /\ total_tenths < 750)
\* a lead with the top score in every component
C13_Witness ==
    /\ scoring.scored.tier # "none"
    /\ C13_Components(scoring.scored.score) = {25}
    /\ scoring.scored.total_tenths = 1000
    /\ scoring.scored.tier = "hot"

C15_Kinds == {"status", "lead", "lead_update", "error", "complete"}
C15_EachCallEmits ==
    [][\A j \in DOMAIN jobs \cap DOMAIN jobs' :
          (jobs'[j].gen = jobs[j].gen /\ jobs'[j] # jobs[j]) =>
             /\ jobs'[j].appended = jobs[j].appended + 1
             /\ LastEvent(jobs'[j]).type \in C15_Kinds
             /\ LastEvent(jobs'[j]).seq = jobs[j].appended]_vars

\* C16: a stream that has sent a complete event or a non-recoverable error event is
\* over; a stream opened on a job that is completed, failed or cancelled is over after
\* its replay and has registered no callback; a callback is registered exactly while the
\* stream is in its live loop
C16_SentTerminal == \E i \in 1..Len(hout) : IsTerminalEvent(hout[i].event)
C16_StreamEnds ==
    /\ [](stream.pc = "live" => ~C16_SentTerminal)
    /\ [](stream.registered <=> stream.pc = "live")
    /\ [][\A u \in Users, j \in DOMAIN jobs, k \in {NoLastId, 0, 1} :
             (StreamOpen(u, j, k) /\ jobs[j].status \in {"completed", "failed", "cancelled"}) =>
                stream'.pc = "closed" /\ ~stream'.registered]_vars

\* C17: the frames of one connection carry strictly increasing ids and events in append
\* order, and a frame pushed in the live loop carries the id a replay attaches to that
\* event, its index in the job's event buffer
C17_Increasing ==
    \A a, b \in 1..Len(hout) :
       a < b => hout[a].id < hout[b].id /\ hout[a].event.seq < hout[b].event.seq
C17_OneSequenceNumber ==
    stream.pc \in {"live", "closed"} =>
       /\ C17_Increasing
       /\ \A i \in (stream.replayed + 1)..Len(hout) :
             stream.jid \in DOMAIN jobs =>
                \A p \in 1..Len(jobs[stream.jid].event_buffer) :
                   jobs[stream.jid].event_buffer[p].seq = hout[i].event.seq =>
                      hout[i].id = p - 1

\* C18: recover_stale_jobs leaves no stored job running or pending: each such job is
\* failed with the restart message and every other row is as it was; until it has run
\* nothing else happens but time passing (no sweep, no request, no job, no task)
C18_Recovered ==
    /\ \A j \in DOMAIN db'.jobs : db'.jobs[j].status \notin {"running", "pending"}
    /\ DOMAIN db'.jobs = DOMAIN db.jobs
    /\ \A j \in DOMAIN db.jobs :
          IF db.jobs[j].status \in {"running", "pending"}
          THEN db'.jobs[j].status = "failed" /\ db'.jobs[j].error = RestartMsg
          ELSE db'.jobs[j] = db.jobs[j]
    /\ db'.leads = db.leads
C19_FinishStatus(t) ==
    IF t.exc = NoError THEN "completed"
    ELSE IF ContainsCancelled(t.exc) THEN "cancelled"
    ELSE "failed"
C20_NotAccepted(t, lead) ==
    /\ jobs' = jobs
    /\ db' = db
C20_Accepted(t, lead) ==
    LET before == jobs[t.jid].leads
        after == jobs'[t.jid].leads
        k == FirstWithPlace(before, lead.place_id)
    IN  /\ jobs'[t.jid].appended = jobs[t.jid].appended + 1
        /\ LastEvent(jobs'[t.jid]).type = "lead_update"
        /\ LastEvent(jobs'[t.jid]).data = lead
        /\ Len(after) = Len(before)
        /\ after[k] = lead
        /\ \A i \in 1..Len(before) : i # k => after[i] = before[i]
        /\ \A t2 \in tasks' : t2.n = t.n => t2.dup_count = t.dup_count /\ t2.dup_jobs = t.dup_jobs
        /\ {l \in db'.leads : l.job_id # t.jid} = {l \in db.leads : l.job_id # t.jid}
C20_AcceptedHalf ==
    [][\A t \in tasks, lead \in LeadPool :
          (LeadUpdateCallback(t, lead) /\ t.jid \in DOMAIN jobs
             /\ HasPlace(jobs[t.jid].leads, lead.place_id)) => C20_Accepted(t, lead)]_vars

C21_CallbackRaises ==
    /\ [][\A t \in tasks, step \in StepNames, current \in Currents :
             (ProgressCallback(t, step, current) /\ IsCancelled(jobs, t.jid)) =>
                /\ jobs' = jobs
                /\ db' = db
                /\ \E t2 \in tasks' : t2.n = t.n /\ t2.pc = "returned" /\ t2.exc = CancelledMsg]_vars
    /\ [][\A t \in tasks :
             (t.pc = "returned" /\ t.exc = CancelledMsg /\ t.jid \in DOMAIN jobs /\ ~FinishRun(t)) =>
                (t \in tasks' /\ jobs'[t.jid] = jobs[t.jid])]_vars
\* a run that raised "Job cancelled" ends with the job's status cancelled
C21_RaisedEndsCancelled ==
    [][\A t \in tasks :
          (FinishRun(t) /\ t.exc = CancelledMsg /\ t.jid \in DOMAIN jobs) =>
             jobs'[t.jid].status = "cancelled"]_vars

\* C22: _cleanup_old_jobs removes from memory exactly the jobs that are completed, failed
\* or cancelled when it runs (after the timeout check of the same turn of the loop) and
\* were created more than job_ttl_hours ago, however recently they finished; a pending job
\* is never removed, nor a running one that the same turn has not timed out; the on_event
\* of a stream on a removed job is no longer registered afterwards; no row and no lead is
\* deleted from the store
C22_AfterTimeouts == FailAll(jobs, TimedOut(jobs, now), TimeoutMsg, now)
C22_Removed == DOMAIN jobs \ DOMAIN jobs'
C22_SweepStep ==
    /\ \A j \in DOMAIN jobs :
          j \in C22_Removed <=>
             /\ C22_AfterTimeouts[j].status \in {"completed", "failed", "cancelled"}
             /\ C22_AfterTimeouts[j].created_at < now - job_ttl_hours
    /\ \A j \in C22_Removed :
          jobs[j].status # "pending" /\ (jobs[j].status = "running" => j \in TimedOut(jobs, now))
    /\ stream.jid \in C22_Removed => ~stream'.registered
    /\ stream.jid \notin C22_Removed => stream' = stream
    /\ DOMAIN db'.jobs = DOMAIN db.jobs
    /\ db'.leads = db.leads
C23_PlacesOf(leads) == {leads[i].place_id : i \in 1..Len(leads)}
C23_Recorded(t, step, current) ==
    /\ jobs'[t.jid].checkpoint.step = step
    /\ jobs'[t.jid].checkpoint.last_index = current
C24_ResumedRunStarts ==
    [][\A t \in tasks :
          (RunPipelineSync(t) /\ t.skip # {}) =>
             \E t2 \in tasks' :
                /\ t2.n = t.n
                /\ t2.pc = "in_pipeline"
                /\ t2.mode = IF ContainsOutreach(t.rstep) THEN "outreach" ELSE "enrich"
                /\ t2.loaded = Cardinality(t.skip)]_vars
\* what _run_pipeline_sync decides before Pipeline(...): with a non-empty skip set the mode
\* follows the outreach marker and the stored leads are reloaded; with an empty skip set
\* the run is that of a new job whatever the checkpoint step
C24_ModeByStep ==
    \A t \in tasks :
       t.pc = "in_pipeline" =>
          /\ t.skip # {} =>
                /\ t.mode = "outreach" <=> ContainsOutreach(t.rstep)
                /\ t.mode = "enrich" <=> ~ContainsOutreach(t.rstep)
                /\ t.loaded = Cardinality(t.skip)
          /\ t.skip = {} => t.mode = "new" /\ t.loaded = 0
\* lead_callback rejects every place id of the skip set: no add_lead, no duplicate counted
C24_SkipRejected ==
    [][\A t \in tasks, lead \in LeadPool :
          (LeadCallback(t, lead) /\ lead.place_id \in t.skip) =>
             /\ jobs' = jobs
             /\ db' = db
             /\ \A t2 \in tasks' : t2.n = t.n =>
                   t2.saved = t.saved /\ t2.dup_count = t.dup_count /\ t2.dup_jobs = t.dup_jobs]_vars
\* a resumed job whose checkpoint step has the outreach marker runs as a new job
C24_RestartsAsNew ==
    \E t \in tasks :
       t.pc = "in_pipeline" /\ ContainsOutreach(t.rstep) /\ t.mode = "new" /\ t.calls > 0

\* C25: a job's event buffer never holds more than max_buffer_size events, and it holds
\* exactly the most recently appended ones in the order they were appended: with n events
\* appended so far, the events number n - Len + 1 .. n, none missing
C25_MostRecent(job) ==
    LET n == Len(job.event_buffer)
    IN  /\ n <= max_buffer_size
        /\ n = Min(job.appended, max_buffer_size)
        /\ \A i \in 1..n : job.event_buffer[i].seq = job.appended - n + i - 1
C25_BufferBound == \A j \in DOMAIN jobs : C25_MostRecent(jobs[j])
\* a job has appended more events than the buffer holds and the oldest are gone
C25_Witness ==
    \E j \in DOMAIN jobs :
       /\ jobs[j].appended = max_buffer_size + 3
       /\ Len(jobs[j].event_buffer) = max_buffer_size
       /\ jobs[j].event_buffer[1].seq = 3
       /\ jobs[j].event_buffer[max_buffer_size].seq = max_buffer_size + 2

\* C26: the body of a list_jobs answer names each job of the caller, in memory or in the
\* store, exactly once and no job of anybody else; a job that is in memory is reported
\* from its in-memory record (status, error, summary, created_at) even when the store has
\* a row for it; the entries are in descending order of created_at
C26_JobsOf(u) ==
    {j \in DOMAIN jobs : jobs[j].user_id = u}
       \cup (IF dbConfigured THEN {j \in DOMAIN db.jobs : db.jobs[j].user_id = u} ELSE {})
C26_ListStep(u) ==
    LET body == resp'.body
    IN  /\ {body[i].job_id : i \in 1..Len(body)} = C26_JobsOf(u)
        /\ Len(body) = Cardinality(C26_JobsOf(u))
        /\ \A i \in 1..Len(body) :
              IF body[i].job_id \in DOMAIN jobs
              THEN body[i] = MemEntry(jobs, body[i].job_id)
              ELSE body[i] = DbEntry(db, body[i].job_id)
        /\ \A a, b \in 1..Len(body) : a < b => body[a].created_at >= body[b].created_at
C27_Owner(j) ==
    IF j \in DOMAIN jobs THEN jobs[j].user_id
    ELSE IF dbConfigured /\ j \in DOMAIN db.jobs THEN db.jobs[j].user_id
    ELSE NoUser
C27_Stranger(u, j) == u # "dev-user" /\ C27_Owner(j) # NoUser /\ C27_Owner(j) # u
C27_Refused ==
    /\ resp'.code \in {"403", "404", "503"}
    /\ resp'.body = <<>>
    /\ jobs' = jobs
    /\ db' = db
    /\ tasks' = tasks
    /\ stream' = stream
C27_OwnerOnly ==
    /\ [][\A u \in Callers, j \in JobIds :
             C27_Stranger(u, j) =>
                /\ (GetJobStatus(u, j) \/ GetJobLeads(u, j) \/ ExportJobLeads(u, j)
                       \/ CancelRoute(u, j) \/ ResumeRoute(u, j) \/ DeleteJob(u, j)) => C27_Refused
                /\ StreamOpen(u, j, NoLastId) =>
                      /\ hout' \in {<<ErrorFrame("Not authorized")>>, <<ErrorFrame("Job not found")>>}
                      /\ ~stream'.registered
                      /\ jobs' = jobs
                      /\ db' = db]_vars
    /\ [][\A u \in Callers :
             ListJobs(u) =>
                \A i \in 1..Len(resp'.body) : C27_Owner(resp'.body[i].job_id) = u]_vars
\* a delete of a finished job with leads has been refused with 403
C27_Witness ==
    /\ resp = Resp("delete", "403")
    /\ \E j \in DOMAIN jobs : jobs[j].status \in Terminal /\ jobs[j].leads # <<>>
    /\ \E l \in db.leads : TRUE


\* C28: a run of Pipeline.run makes its progress calls in the order 'Scraping Google
\* Maps', 'Enriching leads', 'Scoring leads', 'Generating outreach', each stage working on
\* the finished output of the one before it; and when the scrape stage returns no lead
\* the run does nothing more: no lead is enriched, scored or given outreach, no callback
\* but the scrape progress call is made, and the result returned is the empty one
C28_Rank(step) == CHOOSE i \in 1..Len(StageOrder) : StageOrder[i] = step
C28_StepNames == {pipeline.steps[i].step : i \in 1..Len(pipeline.steps)}
C28_StagesInOrder ==
    pipeline.pc # "none" =>
       /\ \A i, j \in 1..Len(pipeline.steps) :
             i < j => C28_Rank(pipeline.steps[i].step) <= C28_Rank(pipeline.steps[j].step)
       /\ pipeline.steps # <<>> => pipeline.steps[1].step = "Scraping Google Maps"
       /\ pipeline.enriched # <<>> => pipeline.raw # <<>> /\ pipeline.steps # <<>>
       /\ pipeline.scored # <<>> =>
             /\ Len(pipeline.enriched) = Len(pipeline.raw)
             /\ Len(pipeline.scored) = Len(pipeline.enriched)
             /\ "Scoring leads" \in C28_StepNames
       /\ pipeline.final # <<>> \/ "Generating outreach" \in C28_StepNames =>
             pipeline.qualified # <<>> /\ "Scoring leads" \in C28_StepNames
       /\ (pipeline.pc # "start" /\ pipeline.raw = <<>>) =>
             /\ pipeline.pc \in {"returned", "raised"}
             /\ pipeline.enriched = <<>> /\ pipeline.scored = <<>> /\ pipeline.qualified = <<>>
             /\ pipeline.final = <<>> /\ pipeline.called = <<>>
             /\ pipeline.closed
             /\ pipeline.pc = "returned" =>
                   /\ pipeline.steps = <<ProgressCall("Scraping Google Maps", 0, 0)>>
                   /\ pipeline.result = NoResult
\* a run has gone through all four stages and returned
C28_Witness ==
    /\ pipeline.pc = "returned"
    /\ C28_StepNames = {StageOrder[i] : i \in 1..Len(StageOrder)}
    /\ pipeline.result.completed
\* a run whose scrape stage found nothing has returned
C28_EmptyReturned == pipeline.pc = "returned" /\ pipeline.raw = <<>>


\* C29: in _generate_outreach every qualified lead gets exactly one FinalLead and one
\* lead_callback call, in input order: the FinalLead generate made, or, when generate
\* raised, the one without outreach; a raising generate does not end the batch, and the
\* list run returns has one FinalLead per qualified lead
C29_Expected(k) == [i \in 1..k |-> FinalLead(pipeline.qualified[i], pipeline.generated[i])]
C30_TierOf(t_tenths) ==
    IF t_tenths >= 750 THEN "hot" ELSE IF t_tenths >= 500 THEN "warm" ELSE "cold"
C30_RebuiltKeepsTotal ==
    (scoring.scored.tier # "none" /\ scoring.lead.score \in StoredScores) =>
       LET t == scoring.lead.score
           score == scoring.scored.score
       IN  /\ scoring.scored.tier # "raised"
           /\ \A f \in DOMAIN score : score[f] = score.rating_score
           /\ 0 <= score.rating_score /\ score.rating_score <= 25 * 1000
           /\ score.rating_score * 4 = t * 100
           /\ scoring.scored.total_thousandths = t * 100
           /\ scoring.scored.tier = C30_TierOf(t)
\* a lead stored with a total of exactly 75 has been rebuilt
C30_Witness ==
    /\ scoring.lead.score = 750
    /\ scoring.scored.tier = "hot"
    /\ scoring.scored.score.review_score = 18750


\* C31: update_lead returns True exactly when the job's lead list holds a lead with the
\* given place_id, which the call replaces, and False when the job exists but no lead
\* of it has that place_id
C31_Replaces(jid, pid, lead) ==
    /\ jid \in DOMAIN jobs
    /\ HasPlace(jobs[jid].leads, pid)
    /\ jobs'[jid].leads = [jobs[jid].leads EXCEPT ![FirstWithPlace(jobs[jid].leads, pid)] = lead]
C31_TrueIffReplaced ==
    [][\A jid \in JobIds, lead \in LeadPool :
          UpdateLead(jid, lead.place_id, lead) =>
             (resp'.code = "True" <=> C31_Replaces(jid, lead.place_id, lead))]_vars
\* the half that holds: a True is never given for a job that is not in memory, a found
\* lead is replaced by the new one, and the other leads stay as they are
C31_FoundIsReplaced ==
    [][\A jid \in JobIds, lead \in LeadPool :
          UpdateLead(jid, lead.place_id, lead) =>
             /\ jid \notin DOMAIN jobs => resp'.code = "False" /\ jobs' = jobs /\ db' = db
             /\ (jid \in DOMAIN jobs /\ HasPlace(jobs[jid].leads, lead.place_id)) =>
                   resp'.code = "True" /\ C31_Replaces(jid, lead.place_id, lead)
             /\ (jid \in DOMAIN jobs /\ ~HasPlace(jobs[jid].leads, lead.place_id)) =>
                   jobs'[jid].leads = jobs[jid].leads]_vars


\* C32: the tier LeadScorer.score gives follows the thresholds the scorer was
\* constructed with: hot iff total >= hot_threshold, warm iff warm_threshold <= total <
\* hot_threshold, cold otherwise
C32_TierBy(total_tenths, h, w) ==
    IF total_tenths >= h * 10 THEN "hot" ELSE IF total_tenths >= w * 10 THEN "warm" ELSE "cold"
C32_TierByThresholds ==
    scoring.scored.tier # "none" =>
       scoring.scored.tier = C32_TierBy(scoring.scored.total_tenths,
                                        scoring.scorer.hot_threshold,
                                        scoring.scorer.warm_threshold)
\* what holds: the tier follows the thresholds 75 and 50 of LeadScore.tier, whichever
\* thresholds the scorer has, and so agrees with the scorer's when they are the defaults
C32_TierByFixed ==
    scoring.scored.tier # "none" =>
       scoring.scored.tier = C32_TierBy(scoring.scored.total_tenths, 75, 50)
C32_DefaultsAgree ==
    (/\ scoring.scored.tier # "none"
     /\ scoring.scorer = LeadScorerInit(NoThreshold, NoThreshold)) =>
       scoring.scored.tier = C32_TierBy(scoring.scored.total_tenths,
                                        scoring.scorer.hot_threshold,
                                        scoring.scorer.warm_threshold)


\* C33: a JobManager call that emits an event calls every callback registered for the
\* job with that event, also those after a callback that raises; it returns normally; and
\* its change is applied in full: the event is in the buffer, a failed job is failed in
\* memory and in the store, an accepted lead is in the lead list and in the store
C33_Ops == {"update_progress", "add_lead", "fail_job"}
C33_AllNotified ==
    [][\A jid \in DOMAIN jobs :
          (resp'.op \in C33_Ops /\ jobs'[jid] # jobs[jid]) =>
             /\ resp'.code = "returned"
             /\ jobs'[jid].appended = jobs[jid].appended + 1
             /\ Len(jobs'[jid].event_buffer) = Len(jobs[jid].event_buffer) + 1
             /\ Len(CallbacksOf(callbacks', jid)) = Len(CallbacksOf(callbacks, jid))
             /\ \A i \in 1..Len(CallbacksOf(callbacks, jid)) :
                   callbacks'[jid][i] =
                      [callbacks[jid][i] EXCEPT !.got = Append(@, LastEvent(jobs'[jid]))]
             /\ resp'.op = "update_progress" => LastEvent(jobs'[jid]).type = "status"
             /\ resp'.op = "fail_job" =>
                   /\ jobs'[jid].status = "failed" /\ jobs'[jid].error = TimeoutMsg
                   /\ LastEvent(jobs'[jid]).type = "error"
                   /\ (dbConfigured /\ jid \in DOMAIN db.jobs) => db'.jobs[jid].status = "failed"
             /\ resp'.op = "add_lead" =>
                   /\ Len(jobs'[jid].leads) = Len(jobs[jid].leads) + 1
                   /\ LastEvent(jobs'[jid]).type = "lead"
                   /\ dbConfigured => Cardinality(db'.leads) = Cardinality(db.leads) + 1]_vars
\* a callback registered after one that raises has been called with two events, as the
\* raising one has, and the emitting call returned
C33_Witness ==
    /\ resp.op \in C33_Ops /\ resp.code = "returned"
    /\ \E jid \in DOMAIN callbacks :
          /\ Len(callbacks[jid]) = 2
          /\ callbacks[jid][1].raises /\ ~callbacks[jid][2].raises
          /\ Len(callbacks[jid][1].got) = 2
          /\ callbacks[jid][2].got = callbacks[jid][1].got


\* C34: in every reachable state at most max_concurrent_jobs in-memory jobs are pending
\* or running, and for each user at most max_jobs_per_user of that user's jobs are
C34_WithinLimits ==
    /\ GlobalRunning(jobs) <= max_concurrent_jobs
    /\ \A u \in Users : UserRunning(jobs, u) <= max_jobs_per_user


\* C35: no two pipeline runs of one job id are under way at the same time: of the
\* run_scrape_job tasks of a job id at most one is between its run_in_executor call and
\* the return of its _run_pipeline_sync
C35_Underway(t) == t.pc \in {"executing", "in_pipeline"}
C35_OneRunPerJob ==
    \A t1, t2 \in tasks : (t1.jid = t2.jid /\ C35_Underway(t1) /\ C35_Underway(t2)) => t1 = t2


\* C36: no place_id is in the lead lists of two different jobs of one user, also when
\* two runs of the user are inside add_lead at the same time
C36_PlacesOf(j) == {jobs[j].leads[i].place_id : i \in 1..Len(jobs[j].leads)}
C36_RejectedAfterInsert ==
    [][\A t \in tasks, lead \in LeadPool :
          (/\ AddLeadCheck(t, lead)
           /\ \E j \in DOMAIN jobs : j # t.jid /\ lead.place_id \in C36_PlacesOf(j)) =>
             /\ jobs' = jobs /\ db' = db
             /\ \E t2 \in tasks' : t2.n = t.n /\ t2.pending = NoLead /\ t2.dup_count = t.dup_count + 1]_vars


\* C37: once the subscriber is in its live loop with nothing left to take, every event
\* the job emitted since the replay began has been sent to it in exactly one frame
C37_FramesOf(seq) == {i \in 1..Len(hout) : hout[i].event.seq = seq}
C37_Settled == stream.pc = "live" /\ stream.queue = <<>> /\ stream.inflight = <<>>
C37_OnceAfterRegistration ==
    C37_Settled =>
        \A seq \in stream.from..(jobs[stream.jid].appended - 1) :
            Cardinality(C37_FramesOf(seq)) = 1
\* an event lost: emitted during the subscription and in no frame
C37_Lost ==
    C37_Settled =>
        \A seq \in stream.start..(jobs[stream.jid].appended - 1) : C37_FramesOf(seq) # {}
\* an event repeated: in two frames
C37_Repeated ==
    \A seq \in 0..MaxAppend : Cardinality(C37_FramesOf(seq)) <= 1
\* an event lost that was appended before the replay loop ended
C37_LostBySlice ==
    C37_Settled =>
        \A seq \in stream.start..(stream.at_end - 1) : C37_FramesOf(seq) # {}


\* C38: a stream that is in its live loop when the job's status is completed, failed or
\* cancelled eventually ends, with on_event unregistered
C38_LiveOnFinished(S) ==
    stream.pc = "live" /\ stream.jid \in DOMAIN jobs /\ jobs[stream.jid].status \in S
C38_Ended == stream.pc = "closed" /\ ~stream.registered
C38_EndsAfterCompleteOrFail == C38_LiveOnFinished({"completed", "failed"}) ~> C38_Ended


\* C39: a status becomes cancelled only on a job whose cancel_requested flag is set, and
\* a run that ends with an exception while the flag is not set leaves the job failed with
\* the exception's text as its error
C39_BecomesCancelled(j) ==
    j \in DOMAIN jobs /\ j \in DOMAIN jobs' /\ jobs[j].status # "cancelled" /\ jobs'[j].status = "cancelled"
C39_EndsRaised(t) ==
    FinishRun(t) /\ t.exc # NoError /\ t.jid \in DOMAIN jobs /\ ~jobs[t.jid].cancel_requested
C39_FailedWith(t) ==
    jobs'[t.jid].status = "failed" /\ jobs'[t.jid].error = t.exc
C39_FailedUnlessWord ==
    [][\A t \in tasks : (C39_EndsRaised(t) /\ ~ContainsCancelled(t.exc)) => C39_FailedWith(t)]_vars


C40_GoneAddsNoId ==
    [][\A t \in tasks, lead \in LeadPool :
          (LeadCallback(t, lead) /\ t.jid \notin DOMAIN jobs) =>
             \A t2 \in tasks' : t2.n = t.n => t2.dup_jobs = t.dup_jobs]_vars

\* the same-job case alone: a lead_callback with a place_id the job already holds in
\* memory leaves the job's own id out of duplicate_job_ids
C40_SameJobAddsNoId ==
    [][\A t \in tasks, lead \in LeadPool :
          (/\ LeadCallback(t, lead)
           /\ t.jid \in DOMAIN jobs
           /\ lead.place_id \notin t.skip
           /\ HasPlace(jobs[t.jid].leads, lead.place_id)) =>
             \A t2 \in tasks' : t2.n = t.n => t.jid \notin t2.dup_jobs]_vars

====
